---------------------------- MODULE Spec2Model ----------------------------
(***************************************************************************)
(* CalculiX .frd -> .vtk/.vtu converter (ccx2paraview/common.py).          *)
(*                                                                         *)
(* The source file is a sequence of lines.  A line is a record             *)
(*     [key, toks, name, vals]                                             *)
(*   key  : the leading tag of the line, stripped ("2", "3", "100",        *)
(*          "9999", "-1", "-2", "-3", "-4", "-5", "1", ...)                *)
(*   toks : the integer fields that follow the tag                         *)
(*   name : the word that starts at column 5 (dataset / component name),   *)
(*          a sequence of one-character strings                            *)
(*   vals : the 12-character float fields, each a sequence of              *)
(*          one-character strings (the text of the field)                  *)
(* A float value is a decimal  m * 10^e  kept normalised (m carries no     *)
(* trailing zero), or NaN, or +/-Inf.                                      *)
(***************************************************************************)
EXTENDS Integers, Sequences, FiniteSets, TLC

VARIABLES
    file,               \* the lines of the .frd file
    fmt_list,           \* Converter.fmt_list
    in_pos,             \* in_file: index of the next line readline() returns
    file_open,          \* in_file is open
    pc,                 \* position of the main thread inside Converter.run
    err,                \* exception that left Converter.run ("" if none)
    renumbered_nodes,   \* module-level dict old_number -> new_number
    node_block,         \* FRD.node_block
    elem_block,         \* FRD.elem_block
    ugrid,              \* FRD.ugrid
    steps_increments,   \* FRD.steps_increments
    it,                 \* index of the current (step, inc, num) of the loop
    result_blocks,      \* result_blocks of the current iteration
    bi,                 \* index of the next block b of "for b in result_blocks"
    threads,            \* list of started writer threads
    written,            \* files written so far
    logged,             \* messages passed to logging.warning
    events,             \* history of the main thread's decode/join/start events
    other,              \* a second FRD instance of the same process
    read_to             \* in_file: the position after the last line read so far

vars == <<read_to, other, file, fmt_list, in_pos, file_open, pc, err, renumbered_nodes,
          node_block, elem_block, ugrid, steps_increments, it, result_blocks,
          bi, threads, written, logged, events>>

-----------------------------------------------------------------------------
(* Bounds of the input families.                                           *)

MaxNodes == 3
MaxElems == 2
MaxFrac == 2
MaxBlocks == 2

-----------------------------------------------------------------------------
(* Small helpers on sequences and maps.                                    *)

Range(s) == {s[i] : i \in DOMAIN s}

EmptyMap == [x \in {} |-> 0]

RECURSIVE SortedSeq(_)
SortedSeq(S) ==
    IF S = {} THEN <<>>
    ELSE LET lo == CHOOSE x \in S : \A y \in S : x <= y
         IN <<lo>> \o SortedSeq(S \ {lo})

RECURSIVE Pow10(_)
Pow10(n) == IF n <= 0 THEN 1 ELSE 10 * Pow10(n - 1)

RECURSIVE NumDigits(_)
NumDigits(n) == IF n < 10 THEN 1 ELSE 1 + NumDigits(n \div 10)

Abs(n) == IF n < 0 THEN -n ELSE n

Min(a, b) == IF a < b THEN a ELSE b
Max(a, b) == IF a > b THEN a ELSE b

-----------------------------------------------------------------------------
(* Float values and Python's float().                                      *)

RECURSIVE Norm(_, _)
Norm(m, e) ==
    IF m = 0 THEN [k |-> "num", m |-> 0, e |-> 0]
    ELSE IF m % 10 = 0 THEN Norm(m \div 10, e + 1)
    ELSE [k |-> "num", m |-> m, e |-> e]

NaN == [k |-> "nan", m |-> 0, e |-> 0]
Inf(neg) == [k |-> "inf", m |-> IF neg THEN -1 ELSE 1, e |-> 0]
Zero == Norm(0, 0)
ValueError == [k |-> "ValueError", m |-> 0, e |-> 0]

\* largest and smallest decimal exponents of a double
MaxExp10 == 308
MinExp10 == -324

\* the double nearest to m * 10^e: overflow gives inf, underflow gives 0
Double(m, e) ==
    LET v == Norm(m, e)
        mag == NumDigits(Abs(v.m)) + v.e
    IN  IF v.m = 0 THEN v
        ELSE IF mag > MaxExp10 + 1 THEN Inf(v.m < 0)
        ELSE IF mag < MinExp10 + 1 THEN Zero
        ELSE v

IsDigit(c) == c \in {"0", "1", "2", "3", "4", "5", "6", "7", "8", "9"}

DigitVal(c) ==
    CASE c = "0" -> 0 [] c = "1" -> 1 [] c = "2" -> 2 [] c = "3" -> 3
      [] c = "4" -> 4 [] c = "5" -> 5 [] c = "6" -> 6 [] c = "7" -> 7
      [] c = "8" -> 8 [] c = "9" -> 9

DigitChar(d) == <<"0", "1", "2", "3", "4", "5", "6", "7", "8", "9">>[d + 1]

\* index just past the run of digits of s that starts at i
RECURSIVE SkipDigits(_, _)
SkipDigits(s, i) ==
    IF i <= Len(s) /\ IsDigit(s[i]) THEN SkipDigits(s, i + 1) ELSE i

\* value of the digits s[i..j-1] appended to acc
RECURSIVE DigitsValue(_, _, _, _)
DigitsValue(s, i, j, acc) ==
    IF i >= j THEN acc ELSE DigitsValue(s, i + 1, j, 10 * acc + DigitVal(s[i]))

RECURSIVE strip(_)
strip(s) ==
    IF s = <<>> THEN s
    ELSE IF Head(s) = " " THEN strip(Tail(s))
    ELSE IF s[Len(s)] = " " THEN strip(SubSeq(s, 1, Len(s) - 1))
    ELSE s

lower(c) ==
    CASE c = "N" -> "n" [] c = "A" -> "a" [] c = "I" -> "i" [] c = "F" -> "f"
      [] c = "T" -> "t" [] c = "Y" -> "y" [] OTHER -> c

\* float(s): the value, or ValueError.  The text is read left to right:
\* sign, digits (from i1), '.', digits (from f1), exponent digits (from i4;
\* 0 when there is no exponent), end of the number (i5).
float_end(t, i1, i2, f1, i3, i4, i5) ==
    IF (i2 - i1) + (i3 - f1) = 0 THEN ValueError
    ELSE IF i4 > 0 /\ i5 = i4 THEN ValueError
    ELSE IF i5 # Len(t) + 1 THEN ValueError
    ELSE Double((IF t[1] = "-" THEN -1 ELSE 1)
                    * (DigitsValue(t, i1, i2, 0) * Pow10(i3 - f1)
                           + DigitsValue(t, f1, i3, 0)),
                (IF i4 > 0
                    THEN (IF t[i4 - 1] = "-" THEN -1 ELSE 1)
                             * DigitsValue(t, i4, i5, 0)
                 ELSE 0) - (i3 - f1))

float_exponent(t, i1, i2, f1, i3, i4) ==
    float_end(t, i1, i2, f1, i3, i4, IF i4 > 0 THEN SkipDigits(t, i4) ELSE i3)

float_fraction(t, i1, i2, f1, i3) ==
    float_exponent(t, i1, i2, f1, i3,
        IF i3 <= Len(t) /\ t[i3] \in {"e", "E"}
            THEN IF i3 + 1 <= Len(t) /\ t[i3 + 1] \in {"+", "-"}
                     THEN i3 + 2 ELSE i3 + 1
        ELSE 0)

float_point(t, i1, i2, f1) ==
    float_fraction(t, i1, i2, f1, IF f1 > i2 THEN SkipDigits(t, f1) ELSE i2)

float_digits(t, i1, i2) ==
    float_point(t, i1, i2, IF i2 <= Len(t) /\ t[i2] = "." THEN i2 + 1 ELSE i2)

float_word(t, i1, word) ==
    IF word = <<"n", "a", "n">> THEN NaN
    ELSE IF word \in {<<"i", "n", "f">>,
                      <<"i", "n", "f", "i", "n", "i", "t", "y">>}
        THEN Inf(t[1] = "-")
    ELSE float_digits(t, i1, SkipDigits(t, i1))

float_sign(t, i1) ==
    float_word(t, i1, [i \in 1..(Len(t) - i1 + 1) |-> lower(t[i + i1 - 1])])

float_stripped(t) ==
    IF t = <<>> THEN ValueError
    ELSE float_sign(t, IF t[1] \in {"+", "-"} THEN 2 ELSE 1)

float(s) == float_stripped(strip(s))

\* the text contains 'NaN' or 'Inf'
HasSub(s, w) ==
    \E i \in 1..Len(s) : i + Len(w) - 1 <= Len(s) /\ SubSeq(s, i, i + Len(w) - 1) = w

\* re.sub(r'(.+).([+-])(\d{3})', r'\1e\2\3', m): the greedy (.+) ends at the
\* largest i for which one more character, a sign and three digits follow
RepairEnds(m) ==
    {i \in 1..Len(m) : /\ i + 5 <= Len(m)
                       /\ m[i + 2] \in {"+", "-"}
                       /\ IsDigit(m[i + 3])
                       /\ IsDigit(m[i + 4])
                       /\ IsDigit(m[i + 5])}

SetMax(S) == CHOOSE i \in S : \A j \in S : j <= i

re_sub_at(m, i) ==
    SubSeq(m, 1, i) \o <<"e">> \o SubSeq(m, i + 2, i + 5) \o SubSeq(m, i + 6, Len(m))

re_sub_exponent(m) ==
    IF RepairEnds(m) = {} THEN m ELSE re_sub_at(m, SetMax(RepairEnds(m)))

-----------------------------------------------------------------------------
(* Lines of the file and match_line.                                       *)

Line(key, toks, name, vals) ==
    [key |-> key, toks |-> toks, name |-> name, vals |-> vals]

\* in_file.readline() at position p: the line, or EOF (the empty string)
EOF == Line("EOF", <<>>, <<>>, <<>>)
readline(f, p) == IF p <= Len(f) THEN f[p] ELSE EOF

\* "not line" after strip(): end of file or a blank line
IsEmpty(line) == line.key \in {"EOF", ""}

\* line.strip() == '-3'
IsEndOfBlock(line) ==
    line.key = "-3" /\ line.toks = <<>> /\ line.name = <<>> /\ line.vals = <<>>

\* match_line(regex, line) finds a match; otherwise it raises SyntaxError.
\* '^-1(.{10})' + '(.{12})'*3
match_node(line) ==
    line.key = "-1" /\ Len(line.toks) >= 1 /\ Len(line.vals) >= 3
\* r'^(.{12})\s+\d+\s+\d+\s+(\d+)' on line[12:]
match_inc_step(line) ==
    Len(line.vals) >= 1 /\ Len(line.toks) >= 1 /\ line.toks[1] >= 0
\* r'^-4\s+(\w+)' + r'\D+(\d+)'*2
match_vars(line) ==
    line.key = "-4" /\ line.name # <<>> /\ Len(line.toks) >= 2
\* r'^\w+' on line[5:]
match_component(line) == line.name # <<>>
\* r'^-1\s+(\d+)' + '(.{12})' * row_comps
match_result(line, row_comps) ==
    /\ line.key = "-1"
    /\ Len(line.toks) >= 1
    /\ line.toks[1] >= 0
    /\ Len(line.vals) >= row_comps
\* r'^-2\s+' + '(.{12})' * row_comps
match_continuation(line, row_comps) ==
    line.key = "-2" /\ Len(line.vals) >= row_comps


\* the regular expressions given to match_line
RECURSIVE Repeat(_, _)
Repeat(s, n) == IF n <= 0 THEN "" ELSE s \o Repeat(s, n - 1)

regex_node == "^-1(.{10})" \o Repeat("(.{12})", 3)
regex_inc_step == "^(.{12})\\s+\\d+\\s+\\d+\\s+(\\d+)"
regex_vars == "^-4\\s+(\\w+)" \o Repeat("\\D+(\\d+)", 2)
regex_component == "^\\w+"
regex_result(row_comps) == "^-1\\s+(\\d+)" \o Repeat("(.{12})", row_comps)
regex_continuation(row_comps) == "^-2\\s+" \o Repeat("(.{12})", row_comps)

\* match_line whose SyntaxError names the regex and not the line
match_line_without_line(regex, line) ==
    "SyntaxError: Can't parse line with regex:\n" \o regex

\* match_line(regex, line) for a line the regex does not match: the
\* SyntaxError raised, with the line and the regex in its message
match_line(regex, line) ==
    "SyntaxError: Can't parse line:\n" \o ToString(line)
        \o "\nwith regex:\n" \o regex

\* the position of in_file after one more readline()
Advance(f, p) == Min(p + 1, Len(f) + 1)

-----------------------------------------------------------------------------
(* NodalPointCoordinateBlock.                                              *)

\* a block that was never read (None)
NoBlock == [present |-> FALSE]

\* renumbered_nodes[node_number] = new_node_number
SetItem(map, key, value) ==
    [x \in DOMAIN map \cup {key} |-> IF x = key THEN value ELSE map[x]]

\* a result of a reader: what it read, where it stopped, and the exception
\* it raised ("" if none)
NodeState(p, map, points, n, e) ==
    [pos |-> p, map |-> map, points |-> points, new_node_number |-> n, err |-> e]

RECURSIVE read_nodes(_, _)

\* lines 70-77 without the increment of line 77: every node gets the index 0
read_node_without_increment(f, st, node_number, node_coords) ==
    IF \E c \in 1..3 : node_coords[c] = ValueError
        THEN [st EXCEPT !.err = "ValueError"]
    ELSE read_nodes(f,
            NodeState(st.pos,
                      SetItem(st.map, node_number, st.new_node_number),
                      Append(st.points, node_coords),
                      st.new_node_number, ""))

\* lines 70-77 for one matched line, then the next turn of the loop
read_node(f, st, node_number, node_coords) ==
    IF \E c \in 1..3 : node_coords[c] = ValueError
        THEN [st EXCEPT !.err = "ValueError"]
    ELSE read_nodes(f,
            NodeState(st.pos,
                      SetItem(st.map, node_number, st.new_node_number),
                      Append(st.points, node_coords),
                      st.new_node_number + 1, ""))

\* the while loop of lines 61-77
read_nodes(f, st) ==
    LET line == readline(f, st.pos)
    IN  IF IsEmpty(line) \/ IsEndOfBlock(line)
            THEN [st EXCEPT !.pos = Advance(f, st.pos)]
        ELSE IF ~match_node(line)
            THEN [st EXCEPT !.pos = Advance(f, st.pos),
                            !.err = match_line(regex_node, line)]
        ELSE read_node(f, [st EXCEPT !.pos = Advance(f, st.pos)], line.toks[1],
                       [c \in 1..3 |-> float(line.vals[c])])

\* NodalPointCoordinateBlock(in_file): renumbered_nodes.clear(), then the loop
NodalPointCoordinateBlock(f, p) ==
    read_nodes(f, NodeState(p, EmptyMap, <<>>, 0, ""))

\* sorted(renumbered_nodes.keys())
get_node_numbers(map) == SortedSeq(DOMAIN map)

-----------------------------------------------------------------------------
(* Element type catalog and ElementDefinitionBlock.                        *)

\* frd2vtk_num; the names of frd2vtk_txt never reach it (the type is an int)
convert_elem_type(frd_elem_type) ==
    CASE frd_elem_type = 1 -> 12
      [] frd_elem_type = 2 -> 13
      [] frd_elem_type = 3 -> 10
      [] frd_elem_type = 4 -> 25
      [] frd_elem_type = 5 -> 13
      [] frd_elem_type = 6 -> 24
      [] frd_elem_type = 7 -> 5
      [] frd_elem_type = 8 -> 22
      [] frd_elem_type = 9 -> 9
      [] frd_elem_type = 10 -> 23
      [] frd_elem_type = 11 -> 3
      [] frd_elem_type = 12 -> 21
      [] OTHER -> 0

\* r1 + r2 + r3: the 20 nodes of the brick in the order of the file
BrickOrder_file_order ==
    <<1, 2, 3, 4, 5, 6, 7, 8, 9, 10, 11, 12, 13, 14, 15, 16, 17, 18, 19, 20>>

\* node_num_list = r1 + r3 + r2 of the 20 node brick, as 1-based positions
BrickOrder ==
    <<1, 2, 3, 4, 5, 6, 7, 8, 9, 10, 11, 12, 17, 18, 19, 20, 13, 14, 15, 16>>

\* [0,1,2,3,4,5]: the first six nodes of the wedge in the order of the file
WedgeOrder_file_order == <<1, 2, 3, 4, 5, 6>>

\* [0,2,1,3,5,4] of the wedges, as 1-based positions
WedgeOrder == <<1, 3, 2, 4, 6, 5>>

\* e_nodes taken at the positions of order; IndexError (an entry no
\* connectivity has) when e_nodes is shorter than a position used
IndexError == <<-1>>

Reposition(order, e_nodes) ==
    IF \E i \in DOMAIN order : order[i] > Len(e_nodes) THEN IndexError
    ELSE [i \in DOMAIN order |-> e_nodes[order[i]]]

get_element_connectivity(e_type, e_nodes) ==
    IF e_type = 4 THEN Reposition(BrickOrder, e_nodes)
    ELSE IF e_type \in {5, 2} THEN Reposition(WedgeOrder, e_nodes)
    ELSE e_nodes

\* (0, 1, 1, 1, 2, 2, 1, 1, 1, 1, 1, 1, 1)[etype]; a negative index counts
\* from the end of the tuple; -1 stands for IndexError
NumLinesTuple == <<0, 1, 1, 1, 2, 2, 1, 1, 1, 1, 1, 1, 1>>

num_lines(etype) ==
    IF etype \in 0..(Len(NumLinesTuple) - 1) THEN NumLinesTuple[etype + 1]
    ELSE IF etype \in (-Len(NumLinesTuple))..(-1)
        THEN NumLinesTuple[etype + Len(NumLinesTuple) + 1]
    ELSE -1

ElemState(p, types, cells, e) ==
    [pos |-> p, types |-> types, cells |-> cells, err |-> e]

\* the j loop of read_element (lines 368-371): the nodes of the next j
\* lines, renumbered; the first field of each line is skipped unread
RECURSIVE read_element_nodes(_, _, _, _, _)
read_element_nodes(f, p, map, j, element_nodes) ==
    LET line == readline(f, p)
    IN  IF j = 0 THEN [pos |-> p, nodes |-> element_nodes, err |-> ""]
        ELSE IF line.name # <<>> \/ line.vals # <<>>
            THEN [pos |-> Advance(f, p), nodes |-> element_nodes,
                  err |-> "ValueError"]
        ELSE IF \E i \in DOMAIN line.toks : line.toks[i] \notin DOMAIN map
            THEN [pos |-> Advance(f, p), nodes |-> element_nodes,
                  err |-> "KeyError"]
        ELSE read_element_nodes(f, Advance(f, p), map, j - 1,
                element_nodes \o [i \in DOMAIN line.toks |-> map[line.toks[i]]])

\* lines 376-381: types.append, then InsertNextCell; a cell keeps, beside
\* its connectivity, the place rec of its record in the file
insert_cell(st, rec, p, element_type, connectivity) ==
    IF connectivity = IndexError
        THEN ElemState(p, Append(st.types, convert_elem_type(element_type)),
                       st.cells, "IndexError")
    ELSE ElemState(p, Append(st.types, convert_elem_type(element_type)),
                   Append(st.cells, [conn |-> connectivity, rec |-> rec]), "")

read_element_lines(st, rec, element_type, r) ==
    IF r.err # "" THEN [st EXCEPT !.pos = r.pos, !.err = r.err]
    ELSE insert_cell(st, rec, r.pos, element_type,
                     get_element_connectivity(element_type, r.nodes))

read_element_typed(f, map, st, rec, element_type, n) ==
    IF n < 0 THEN [st EXCEPT !.pos = rec + 1, !.err = "IndexError"]
    ELSE read_element_lines(st, rec, element_type,
                            read_element_nodes(f, rec + 1, map, n, <<>>))

\* read_element(line) for the record whose first line is line rec of the file
read_element(f, map, st, rec) ==
    IF Len(f[rec].toks) < 2 THEN [st EXCEPT !.pos = rec + 1, !.err = "IndexError"]
    ELSE read_element_typed(f, map, st, rec, f[rec].toks[2],
                            num_lines(f[rec].toks[2]))

RECURSIVE read_elements(_, _, _)

read_elements_next(f, map, next) ==
    IF next.err # "" THEN next ELSE read_elements(f, map, next)

\* the while loop of lines 337-344
read_elements(f, map, st) ==
    LET line == readline(f, st.pos)
    IN  IF IsEmpty(line) \/ IsEndOfBlock(line)
            THEN [st EXCEPT !.pos = Advance(f, st.pos)]
        ELSE read_elements_next(f, map, read_element(f, map, st, st.pos))

ElementDefinitionBlock(f, p, map) ==
    read_elements(f, map, ElemState(p, <<>>, <<>>, ""))

-----------------------------------------------------------------------------
(* NodalResultsBlock.                                                      *)

N_DISP == <<"D", "I", "S", "P">>
N_NDTEMP == <<"N", "D", "T", "E", "M", "P">>
N_STRESS == <<"S", "T", "R", "E", "S", "S">>
N_TOSTRAIN == <<"T", "O", "S", "T", "R", "A", "I", "N">>
N_FORC == <<"F", "O", "R", "C">>
N_PE == <<"P", "E">>
N_ZZSTR == <<"Z", "Z", "S", "T", "R">>
N_MESTRAIN == <<"M", "E", "S", "T", "R", "A", "I", "N">>
N_ALL == <<"A", "L", "L">>

\* inpname: rename the result block to the name from the .inp-file
inpname(name) ==
    CASE name = N_DISP -> <<"U">>
      [] name = N_NDTEMP -> <<"N", "T">>
      [] name = N_STRESS -> <<"S">>
      [] name = N_TOSTRAIN -> <<"E">>
      [] name = N_FORC -> <<"R", "F">>
      [] name = N_PE -> <<"P", "E", "E", "Q">>
      [] OTHER -> name

startswith(s, prefix) ==
    Len(prefix) <= Len(s) /\ SubSeq(s, 1, Len(prefix)) = prefix

\* get_inc_step(line): inc and step, or the exception raised
inc_step(inc, step) ==
    IF inc = ValueError THEN [inc |-> Zero, step |-> 0, err |-> "ValueError"]
    ELSE [inc |-> inc, step |-> step, err |-> ""]

get_inc_step(line) ==
    IF ~match_inc_step(line)
        THEN [inc |-> Zero, step |-> 0, err |-> match_line(regex_inc_step, line)]
    ELSE inc_step(float(line.vals[1]), line.toks[1])

\* == of two floats: nan equals nothing
float_eq(a, b) == a.k # "nan" /\ a = b

\* read_vars_info: ncomps and the renamed dataset name
read_vars_info(f, p) ==
    LET line == readline(f, p)
    IN  IF ~match_vars(line) \/ line.toks[1] < 0
            THEN [pos |-> Advance(f, p), name |-> <<>>, ncomps |-> 0,
                  err |-> match_line(regex_vars, line)]
        ELSE [pos |-> Advance(f, p), name |-> inpname(line.name),
              ncomps |-> line.toks[1], err |-> ""]

\* the component name with the variable name excluded: SXX -> XX
component_name(word, name) ==
    IF startswith(word, name) THEN SubSeq(word, Len(name) + 1, Len(word))
    ELSE word

\* 'ALL' in component_name
is_all(cname) == HasSub(cname, N_ALL)

\* read_components_info: i counts the lines still to read (range(ncomps) is
\* fixed when the loop starts), ncomps is the running self.ncomps
RECURSIVE read_components_info(_, _, _, _, _, _)

read_component(f, p, name, i, ncomps, components, cname) ==
    IF is_all(cname)
        THEN read_components_info(f, p, name, i - 1, ncomps - 1, components)
    ELSE read_components_info(f, p, name, i - 1, ncomps, Append(components, cname))

read_components_info(f, p, name, i, ncomps, components) ==
    IF i = 0
        THEN [pos |-> p, ncomps |-> ncomps, components |-> components, err |-> ""]
    ELSE IF ~match_component(readline(f, p))
        THEN [pos |-> Advance(f, p), ncomps |-> ncomps,
              components |-> components,
              err |-> match_line(regex_component, readline(f, p))]
    ELSE read_component(f, Advance(f, p), name, i, ncomps, components,
                        component_name(readline(f, p).name, name))

\* lines 536-537 left out: only the nodes of the data lines get an entry
zero_fill_left_out(node_numbers, ncomps) ==
    EmptyMap

\* results[node_num] = [0]*ncomps for every node of the node block
zero_fill(node_numbers, ncomps) ==
    [n \in Range(node_numbers) |-> [c \in 1..ncomps |-> Zero]]

\* one float field of the first line of a record (lines 558-570)
Field(num, nan, wrong, e) ==
    [num |-> num, NaNInf |-> nan, WrongFormat |-> wrong, err |-> e]

read_field_repaired(num) ==
    IF num = ValueError THEN Field(num, 0, 0, "ValueError")
    ELSE Field(num, 0, 1, "")

read_field_parsed(m, num) ==
    IF num # ValueError
        THEN Field(num,
                   IF HasSub(m, <<"N", "a", "N">>) \/ HasSub(m, <<"I", "n", "f">>)
                       THEN 1 ELSE 0,
                   0, "")
    ELSE read_field_repaired(float(re_sub_exponent(m)))

read_field(m) == read_field_parsed(m, float(m))

RECURSIVE SumNaNInf(_)
SumNaNInf(fields) ==
    IF fields = <<>> THEN 0 ELSE Head(fields).NaNInf + SumNaNInf(Tail(fields))

RECURSIVE SumWrongFormat(_)
SumWrongFormat(fields) ==
    IF fields = <<>> THEN 0
    ELSE Head(fields).WrongFormat + SumWrongFormat(Tail(fields))

\* amount of values written in a row
RowWidth == 6
\* a first line that holds all the values of the record
first_row_comps_all(ncomps) == ncomps

first_row_comps(ncomps) == Min(RowWidth, ncomps)

\* the continuation lines of one record (lines 576-582): j is the loop index
RECURSIVE read_continuation(_, _, _, _, _)

read_continuation_row(f, p, ncomps, j, data, more) ==
    IF \E c \in DOMAIN more : more[c] = ValueError
        THEN [pos |-> p, data |-> data, err |-> "ValueError"]
    ELSE read_continuation(f, p, ncomps, j + 1, data \o more)

read_continuation(f, p, ncomps, j, data) ==
    LET line == readline(f, p)
        row_comps == Min(RowWidth, ncomps - RowWidth * (j + 1))
    IN  IF j >= (ncomps - 1) \div RowWidth
            THEN [pos |-> p, data |-> data, err |-> ""]
        ELSE IF ~match_continuation(line, row_comps)
            THEN [pos |-> Advance(f, p), data |-> data,
                  err |-> match_line(regex_continuation(row_comps), line)]
        ELSE read_continuation_row(f, Advance(f, p), ncomps, j, data,
                [c \in 1..row_comps |-> float(line.vals[c])])

ResState(p, results, counter, nan, wrong, e) ==
    [pos |-> p, results |-> results, results_counter |-> counter,
     NaNInf |-> nan, WrongFormat |-> wrong, err |-> e]

RECURSIVE read_records(_, _, _)

\* lines 572-582: the record is stored, then extended by its other lines
read_record_rest(f, ncomps, st, node, rest) ==
    IF rest.err # ""
        THEN [st EXCEPT !.pos = rest.pos, !.err = rest.err,
                        !.results = SetItem(st.results, node, rest.data)]
    ELSE read_records(f, ncomps,
            [st EXCEPT !.pos = rest.pos,
                       !.results = SetItem(st.results, node, rest.data)])

\* lines 556-570 for the fields of the first line of a record
read_record(f, ncomps, st, node, fields) ==
    IF \E c \in DOMAIN fields : fields[c].err # ""
        THEN [st EXCEPT !.err = "ValueError"]
    ELSE read_record_rest(f, ncomps,
            [st EXCEPT !.results_counter = st.results_counter + 1,
                       !.NaNInf = st.NaNInf + SumNaNInf(fields),
                       !.WrongFormat = st.WrongFormat + SumWrongFormat(fields)],
            node,
            read_continuation(f, st.pos, ncomps, 0,
                              [c \in DOMAIN fields |-> fields[c].num]))

\* the while loop of read_nodal_results
read_records(f, ncomps, st) ==
    LET line == readline(f, st.pos)
    IN  IF IsEmpty(line) \/ IsEndOfBlock(line)
            THEN [st EXCEPT !.pos = Advance(f, st.pos)]
        ELSE IF ~match_result(line, first_row_comps(ncomps))
            THEN [st EXCEPT !.pos = Advance(f, st.pos),
                            !.err = match_line(regex_result(first_row_comps(ncomps)),
                                               line)]
        ELSE read_record(f, ncomps, [st EXCEPT !.pos = Advance(f, st.pos)],
                         line.toks[1],
                         [c \in 1..first_row_comps(ncomps) |->
                             read_field(line.vals[c])])

read_nodal_results(f, p, map, ncomps) ==
    read_records(f, ncomps,
        ResState(p, zero_fill(get_node_numbers(map), ncomps), 0, 0, 0, ""))

\* a NodalResultsBlock; warn keeps emitted_warning_types as the block was read
Block(name, components, ncomps, inc, step, results, warn) ==
    [name |-> name, components |-> components, ncomps |-> ncomps, inc |-> inc,
     step |-> step, results |-> results, warn |-> warn]

NoWarn == [NaNInf |-> 0, WrongFormat |-> 0]

\* NodalResultsBlock(line).run(in_file, node_block): get_inc_step, then
\* read_vars_info, read_components_info and read_nodal_results in turn
run_results(h, v, c, r) ==
    [pos |-> r.pos, err |-> r.err,
     b |-> Block(v.name, c.components, c.ncomps, h.inc, h.step, r.results,
                 [NaNInf |-> r.NaNInf, WrongFormat |-> r.WrongFormat])]

run_components(f, map, h, v, c) ==
    IF c.err # "" THEN [pos |-> c.pos, err |-> c.err, b |-> NoBlock]
    ELSE run_results(h, v, c, read_nodal_results(f, c.pos, map, c.ncomps))

run_vars(f, map, h, v) ==
    IF v.err # "" THEN [pos |-> v.pos, err |-> v.err, b |-> NoBlock]
    ELSE run_components(f, map, h, v,
            read_components_info(f, v.pos, v.name, v.ncomps, v.ncomps, <<>>))

run_inc_step(f, p, map, h) ==
    IF h.err # "" THEN [pos |-> p, err |-> h.err, b |-> NoBlock]
    ELSE run_vars(f, map, h, read_vars_info(f, p))

\* for the header line at p - 1
NodalResultsBlock_run(f, p, map) == run_inc_step(f, p, map, get_inc_step(f[p - 1]))

-----------------------------------------------------------------------------
(* Derived blocks: Mises and principal values.                             *)

FloatError(kind) == [k |-> kind, m |-> 0, e |-> 0]

IsError(v) == v.k \in {"ValueError", "IndexError", "OverflowError", "LinAlgError"}

IsNum(v) == v.k = "num"

\* decimal order of magnitude of a finite value: |v| < 10^Mag(v)
Mag(v) == IF v.m = 0 THEN MinExp10 ELSE NumDigits(Abs(v.m)) + v.e

Neg(v) == [v EXCEPT !.m = -v.m]

\* the mantissa of a finite value on the exponent e0
AlignM(v, e0) == v.m * Pow10(v.e - e0)

\* a < b for finite values a, b >= 0
LessPos(a, b) ==
    IF Mag(a) # Mag(b) THEN Mag(a) < Mag(b)
    ELSE AlignM(a, Min(a.e, b.e)) < AlignM(b, Min(a.e, b.e))

\* a < b for finite values
Less(a, b) ==
    IF a.m < 0 /\ b.m >= 0 THEN TRUE
    ELSE IF a.m >= 0 /\ b.m < 0 THEN FALSE
    ELSE IF a.m >= 0 THEN LessPos(a, b)
    ELSE LessPos(Neg(b), Neg(a))

Fabs(v) == IF v.m < 0 THEN Neg(v) ELSE v

\* sorted() of three finite values
Sorted3Hi(s, lo) ==
    CHOOSE i \in 1..3 \ {lo} : \A j \in 1..3 \ {lo} : ~Less(s[i], s[j])

Sorted3At(s, lo, hi) ==
    <<s[lo], s[CHOOSE i \in 1..3 : i \notin {lo, hi}], s[hi]>>

Sorted3Lo(s, lo) == Sorted3At(s, lo, Sorted3Hi(s, lo))

Sorted3(s) ==
    Sorted3Lo(s, CHOOSE i \in 1..3 : \A j \in 1..3 : ~Less(s[j], s[i]))

\* the decimal digits of a double: a value more than that many orders of
\* magnitude below another is lost when the two are added or subtracted
DoubleDigits == 17

\* a - b of two floats
Sub(a, b) ==
    IF a.k = "nan" \/ b.k = "nan" THEN NaN
    ELSE IF a.k = "inf" /\ b.k = "inf" THEN IF a.m = b.m THEN NaN ELSE a
    ELSE IF a.k = "inf" THEN a
    ELSE IF b.k = "inf" THEN Neg(b)
    ELSE IF b.m = 0 THEN a
    ELSE IF a.m = 0 THEN Neg(b)
    ELSE IF Mag(a) - Mag(b) > DoubleDigits THEN a
    ELSE IF Mag(b) - Mag(a) > DoubleDigits THEN Neg(b)
    ELSE Double(AlignM(a, Min(a.e, b.e)) - AlignM(b, Min(a.e, b.e)), Min(a.e, b.e))

\* a + b of two floats that are squares (never negative)
Add(a, b) ==
    IF a.k = "nan" \/ b.k = "nan" THEN NaN
    ELSE IF a.k = "inf" \/ b.k = "inf" THEN Inf(FALSE)
    ELSE IF b.m = 0 THEN a
    ELSE IF a.m = 0 THEN b
    ELSE IF Mag(a) - Mag(b) > DoubleDigits THEN a
    ELSE IF Mag(b) - Mag(a) > DoubleDigits THEN b
    ELSE Double(AlignM(a, Min(a.e, b.e)) + AlignM(b, Min(a.e, b.e)), Min(a.e, b.e))

\* the largest finite float whose square is a float, to nine digits
SqrtMaxM == 134078079
SqrtMaxE == 146

\* v**2: Python raises OverflowError when the square of a finite float is
\* out of range
Square(v) ==
    IF v.k = "nan" THEN NaN
    ELSE IF v.k = "inf" THEN Inf(FALSE)
    ELSE IF LessPos(Norm(SqrtMaxM, SqrtMaxE), Fabs(v)) THEN FloatError("OverflowError")
    ELSE Norm(v.m * v.m, 2 * v.e)

\* k * v for a square v and k > 0
Times(k, v) == IF IsNum(v) THEN Double(k * v.m, v.e) ELSE v

RECURSIVE SumSquares(_)
SumSquares(terms) ==
    IF terms = <<>> THEN Zero ELSE Add(Head(terms), SumSquares(Tail(terms)))

\* 1/sqrt(2) * sqrt(sum): kept as the sum it is the root of (kind "mises":
\* the value v with 2 * v^2 = m * 10^e)
mises_root(terms, sum) ==
    IF \E i \in DOMAIN terms : IsError(terms[i]) THEN FloatError("OverflowError")
    ELSE IF ~IsNum(sum) \/ sum.m = 0 THEN sum
    ELSE [k |-> "mises", m |-> sum.m, e |-> sum.e]

mises_terms(terms) ==
    mises_root(terms,
        SumSquares(<<terms[1], terms[2], terms[3], Times(6, terms[4]),
                     Times(6, terms[5]), Times(6, terms[6])>>))

\* lines 731-737 and 763-769: data = (xx, yy, zz, xy, yz, xz)
mises(data) ==
    mises_terms([i \in 1..6 |->
        Square(CASE i = 1 -> Sub(data[1], data[2])
                 [] i = 2 -> Sub(data[2], data[3])
                 [] i = 3 -> Sub(data[3], data[1])
                 [] i = 4 -> data[5]
                 [] i = 5 -> data[6]
                 [] i = 6 -> data[4])])

\* np.linalg.eigvals of [[xx,xy,xz],[xy,yy,yz],[xz,yz,zz]], sorted, with the
\* Worst value appended.  Without shear the eigenvalues are the diagonal;
\* otherwise they are kept as the i-th eigenvalue of the tensor (kind "eig").
Eig(i, data) == [k |-> "eig", m |-> i, e |-> 0, of |-> data]

\* lines 797-800 without the comparison: Worst is always Max
with_worst_max(eigenvalues) ==
    Append(eigenvalues, eigenvalues[3])

with_worst(eigenvalues) ==
    Append(eigenvalues,
           IF LessPos(Fabs(eigenvalues[3]), Fabs(eigenvalues[1]))
               THEN eigenvalues[1] ELSE eigenvalues[3])

principal(data) ==
    IF \E i \in 1..6 : ~IsNum(data[i]) THEN <<FloatError("LinAlgError")>>
    ELSE IF \A i \in 4..6 : data[i].m = 0
        THEN with_worst(Sorted3(<<data[1], data[2], data[3]>>))
    ELSE [i \in 1..4 |-> Eig(i, data)]

MisesName(name) == name \o <<"_", "M", "i", "s", "e", "s">>
PrincipalName(name) ==
    name \o <<"_", "P", "r", "i", "n", "c", "i", "p", "a", "l">>
PrincipalComponents ==
    << <<"M", "i", "n">>, <<"M", "i", "d">>, <<"M", "a", "x">>,
       <<"W", "o", "r", "s", "t">> >>

SetMin(S) == CHOOSE i \in S : \A j \in S : i <= j

\* the block b1 of a calculate_ method, or the exception of the first node
\* (in the order of get_node_numbers) whose values raise
derived_block(name, components, b, res) ==
    IF \E n \in DOMAIN res : IsError(res[n][1])
        THEN [err |-> res[SetMin({n \in DOMAIN res : IsError(res[n][1])})][1].k,
              b |-> NoBlock]
    ELSE [err |-> "",
          b |-> Block(name, components, Len(components), b.inc, b.step, res,
                      NoWarn)]

\* data[0] .. data[5] of a node, then the formula
mises_at(data) ==
    IF Len(data) < 6 THEN <<FloatError("IndexError")>> ELSE <<mises(data)>>

principal_at(data) ==
    IF Len(data) < 6 THEN <<FloatError("IndexError")>> ELSE principal(data)

calculate_mises_stress(b, map) ==
    derived_block(MisesName(b.name), <<MisesName(b.name)>>, b,
                  [n \in DOMAIN map |-> mises_at(b.results[n])])

calculate_mises_strain(b, map) ==
    derived_block(MisesName(b.name), <<MisesName(b.name)>>, b,
                  [n \in DOMAIN map |-> mises_at(b.results[n])])

calculate_principal(b, map) ==
    derived_block(PrincipalName(b.name), PrincipalComponents, b,
                  [n \in DOMAIN map |-> principal_at(b.results[n])])

-----------------------------------------------------------------------------
(* FRD: parse_mesh, has_mesh, count_increments, parse_results.             *)

\* vtkUnstructuredGrid() as created by FRD.__init__
EmptyGrid == [points |-> <<>>, types |-> <<>>, cells |-> <<>>, point_data |-> <<>>]

MeshState(p, map, nb, eb, e) ==
    [pos |-> p, map |-> map, node_block |-> nb, elem_block |-> eb, err |-> e]

RECURSIVE parse_mesh_loop(_, _)

\* line 626: the node block replaces FRD.node_block once it is constructed
parse_mesh_nodes(f, st, nb) ==
    IF nb.err # ""
        THEN [st EXCEPT !.pos = nb.pos, !.map = nb.map, !.err = nb.err]
    ELSE parse_mesh_loop(f,
            [st EXCEPT !.pos = nb.pos, !.map = nb.map,
                       !.node_block = [present |-> TRUE, points |-> nb.points,
                                       numnod |-> Len(nb.points)]])

\* line 630
parse_mesh_elems(f, st, eb) ==
    IF eb.err # "" THEN [st EXCEPT !.pos = eb.pos, !.err = eb.err]
    ELSE parse_mesh_loop(f,
            [st EXCEPT !.pos = eb.pos,
                       !.elem_block = [present |-> TRUE, types |-> eb.types,
                                       cells |-> eb.cells,
                                       numelem |-> Len(eb.cells)]])

\* the while loop of lines 618-639
parse_mesh_loop(f, st) ==
    LET line == readline(f, st.pos)
    IN  IF line.key = "EOF" THEN st
        ELSE IF line.key = "2"
            THEN parse_mesh_nodes(f, st, NodalPointCoordinateBlock(f, st.pos + 1))
        ELSE IF line.key = "3"
            THEN parse_mesh_elems(f, st,
                    ElementDefinitionBlock(f, st.pos + 1, st.map))
        ELSE IF line.key = "100" THEN st
        ELSE IF line.key = "9999" THEN [st EXCEPT !.pos = st.pos + 1]
        ELSE parse_mesh_loop(f, [st EXCEPT !.pos = st.pos + 1])

\* lines 641-645
\* lines 637-645 without SetCells: a grid of points alone
mesh_grid_without_cells(nb, eb) ==
    [points |-> IF nb.numnod > 0 THEN nb.points ELSE <<>>,
     types |-> <<>>,
     cells |-> <<>>,
     point_data |-> <<>>]

mesh_grid(nb, eb) ==
    [points |-> IF nb.numnod > 0 THEN nb.points ELSE <<>>,
     types |-> IF eb.numelem > 0 THEN eb.types ELSE <<>>,
     cells |-> IF eb.numelem > 0 THEN eb.cells ELSE <<>>,
     point_data |-> <<>>]

\* after the loop: None has no numnod, None has no numelem
parse_mesh_grid(st) ==
    IF st.err # "" THEN [st |-> st, ugrid |-> EmptyGrid]
    ELSE IF ~st.node_block.present
        THEN [st |-> [st EXCEPT !.err = "AttributeError"], ugrid |-> EmptyGrid]
    ELSE IF ~st.elem_block.present
        THEN [st |-> [st EXCEPT !.err = "AttributeError"],
              ugrid |-> [EmptyGrid EXCEPT !.points =
                            IF st.node_block.numnod > 0 THEN st.node_block.points
                            ELSE <<>>]]
    ELSE [st |-> st, ugrid |-> mesh_grid(st.node_block, st.elem_block)]

parse_mesh(f, p, map) ==
    parse_mesh_grid(parse_mesh_loop(f, MeshState(p, map, NoBlock, NoBlock, "")))

has_mesh(nb, eb) == nb.present /\ eb.present

\* (step, inc) in self.steps_increments
InSteps(steps, h) ==
    \E i \in DOMAIN steps : steps[i].step = h.step /\ float_eq(steps[i].inc, h.inc)

RECURSIVE count_increments(_, _, _)

\* lines 660-662
count_increment(f, p, steps, h) ==
    IF h.err # "" THEN [steps |-> steps, err |-> h.err, pos |-> p]
    ELSE count_increments(f, p,
            IF InSteps(steps, h) THEN steps
            ELSE Append(steps, [step |-> h.step, inc |-> h.inc]))

\* the while loop of lines 653-665, which ends at pos; the seek of line 666
\* then puts the file back
count_increments(f, p, steps) ==
    LET line == readline(f, p)
    IN  IF line.key = "EOF" THEN [steps |-> steps, err |-> "", pos |-> p]
        ELSE IF line.key = "100"
            THEN count_increment(f, p + 1, steps, get_inc_step(line))
        ELSE IF line.key = "9999" THEN [steps |-> steps, err |-> "", pos |-> p + 1]
        ELSE count_increments(f, p + 1, steps)

IsStress(name) == name \in {<<"S">>, N_ZZSTR}
IsStrain(name) == name \in {<<"E">>, N_MESTRAIN}

ParseState(p, blocks, e) == [pos |-> p, result_blocks |-> blocks, err |-> e]

RECURSIVE parse_results_loop(_, _, _, _, _)

\* result_blocks.append of a derived block, or its exception
append_derived(st, d) ==
    IF st.err # "" THEN st
    ELSE IF d.err # "" THEN [st EXCEPT !.err = d.err]
    ELSE [st EXCEPT !.result_blocks = Append(st.result_blocks, d.b)]

\* lines 701-703
derive_strain(st, map, b) ==
    IF IsStrain(b.name)
        THEN append_derived(append_derived(st, calculate_mises_strain(b, map)),
                            calculate_principal(b, map))
    ELSE st

\* lines 698-700 with the two appends in the other order
derive_stress_principal_first(st, map, b) ==
    IF IsStress(b.name)
        THEN derive_strain(
                 append_derived(append_derived(st, calculate_principal(b, map)),
                                calculate_mises_stress(b, map)),
                 map, b)
    ELSE derive_strain(st, map, b)

\* lines 698-700
derive_stress(st, map, b) ==
    IF IsStress(b.name)
        THEN derive_strain(
                 append_derived(append_derived(st, calculate_mises_stress(b, map)),
                                calculate_principal(b, map)),
                 map, b)
    ELSE derive_strain(st, map, b)

parse_results_next(f, st, map, step, inc) ==
    IF st.err # "" THEN st ELSE parse_results_loop(f, st, map, step, inc)

\* lines 694-703 for the block r that NodalResultsBlock.run returned
parse_results_block(f, st, map, step, inc, r) ==
    IF r.err # "" THEN [st EXCEPT !.pos = r.pos, !.err = r.err]
    ELSE parse_results_next(f,
            derive_stress([st EXCEPT !.pos = r.pos,
                                    !.result_blocks = Append(st.result_blocks, r.b)],
                          map, r.b),
            map, step, inc)

\* lines 689-692 for a header line at st.pos
parse_results_header(f, st, map, step, inc, h) ==
    IF h.err # "" THEN [st EXCEPT !.pos = st.pos + 1, !.err = h.err]
    ELSE IF ~float_eq(inc, h.inc) \/ step # h.step THEN st
    ELSE parse_results_block(f, st, map, step, inc,
                             NodalResultsBlock_run(f, st.pos + 1, map))

\* the while loop of lines 680-707
parse_results_loop(f, st, map, step, inc) ==
    LET line == readline(f, st.pos)
    IN  IF line.key = "EOF" THEN st
        ELSE IF line.key = "100"
            THEN parse_results_header(f, st, map, step, inc, get_inc_step(line))
        ELSE IF line.key = "9999" THEN [st EXCEPT !.pos = st.pos + 1]
        ELSE parse_results_loop(f, [st EXCEPT !.pos = st.pos + 1], map, step, inc)

\* parse_results(step, inc): "if step:" reads nothing for step 0
parse_results(f, p, map, step, inc) ==
    IF step = 0 THEN ParseState(p, <<>>, "")
    ELSE parse_results_loop(f, ParseState(p, <<>>, ""), map, step, inc)

-----------------------------------------------------------------------------
(* convert_frd_data_to_vtk and the writers.                                *)

\* lines 875-880: Inf and NaN become 0.0, in the list b.results[n] itself
zero_naninf(node_values) ==
    [j \in DOMAIN node_values |->
        IF node_values[j].k \in {"nan", "inf"} THEN Zero ELSE node_values[j]]

\* the number of values of the kind ("inf" or "nan") that line 875-880 meet
RECURSIVE CountKind(_, _, _)
CountKind(results, nodes, kind) ==
    IF nodes = <<>> THEN 0
    ELSE Cardinality({j \in DOMAIN results[Head(nodes)] :
                         results[Head(nodes)][j].k = kind})
             + CountKind(results, Tail(nodes), kind)

\* the tuples after the loop of lines 872-881, indexed from 0: tuple i is
\* the values of nodes[i]; a tuple that SetNumberOfTuples allocated and no
\* InsertTuple wrote holds whatever the memory held (junk)
\* a tuple for every entry of b.results
insert_tuples_of_all_results(results, nodes, numnod, junk) ==
    [i \in 0..(Cardinality(DOMAIN results) - 1) |->
        zero_naninf(results[SortedSeq(DOMAIN results)[i + 1]])]

insert_tuples(results, nodes, numnod, junk) ==
    [i \in 0..((IF Len(nodes) > numnod THEN Len(nodes) ELSE numnod) - 1) |->
        IF i < Len(nodes) THEN zero_naninf(results[nodes[i + 1]])
        ELSE [j \in 1..Len(junk) |-> junk[j]]]

\* line 873: b.results[n] raises KeyError for a node number n of
\* get_node_numbers() that b.results does not hold
missing_results(b, map) == DOMAIN map \ DOMAIN b.results

\* convert_frd_data_to_vtk(b, node_block): the vtkDoubleArray
convert_frd_data_to_vtk(b, nb, map, junk) ==
    [name |-> b.name,
     components |-> b.components,
     tuples |-> insert_tuples(b.results, get_node_numbers(map), nb.numnod,
                              [j \in DOMAIN b.components |-> junk])]

\* b after the conversion changed its lists in place
converted_block(b, map) ==
    [b EXCEPT !.results =
        [n \in DOMAIN b.results |->
            IF n \in DOMAIN map THEN zero_naninf(b.results[n]) ELSE b.results[n]]]

\* pd.AddArray(da): an array of the same name is replaced
AddArray(point_data, da) ==
    IF \E i \in DOMAIN point_data : point_data[i].name = da.name
        THEN [i \in DOMAIN point_data |->
                IF point_data[i].name = da.name THEN da ELSE point_data[i]]
    ELSE Append(point_data, da)

\* str(n) of n >= 0
RECURSIVE IntChars(_)
IntChars(n) ==
    IF n < 10 THEN <<DigitChar(n)>> ELSE IntChars(n \div 10) \o <<DigitChar(n % 10)>>

RECURSIVE ZeroPad(_, _)
ZeroPad(s, width) == IF Len(s) >= width THEN s ELSE ZeroPad(<<"0">> \o s, width)

\* step_inc_num: [(step, inc, num)]; num is '' or '.' and the counter padded
\* with zeros to the width of the number of increments
step_inc_num(steps) ==
    IF Len(steps) = 0 THEN <<[step |-> 0, inc |-> Zero, num |-> <<>>]>>
    ELSE [c \in DOMAIN steps |->
            [step |-> steps[c].step, inc |-> steps[c].inc,
             num |-> IF Len(steps) > 1
                         THEN <<".">> \o ZeroPad(IntChars(c),
                                                Len(IntChars(Len(steps))))
                     ELSE <<>>]]

\* write_converted_file(file_name, ugrid): the file written from the grid as
\* the thread finds it; for another extension no writer is bound and the
\* thread ends with UnboundLocalError
write_converted_file(t, grid) ==
    IF t.fmt \in {".vtk", ".vtu"}
        THEN [err |-> "",
              out |-> {[num |-> t.num, fmt |-> t.fmt, it |-> t.it,
                        points |-> grid.points, cells |-> grid.cells,
                        types |-> grid.types, point_data |-> grid.point_data,
                        datasets |-> <<>>]}]
    ELSE [err |-> "UnboundLocalError", out |-> {}]

\* write_pvd with the name of the source alone in every DataSet
write_pvd_without_num(sin) ==
    [num |-> <<>>, fmt |-> ".pvd", it |-> 0, points |-> <<>>, cells |-> <<>>,
     types |-> <<>>, point_data |-> <<>>,
     datasets |-> [c \in DOMAIN sin |->
                     [file |-> <<>>, fmt |-> ".vtu", timestep |-> sin[c].inc]]]

\* write_pvd: one DataSet per increment
write_pvd(sin) ==
    [num |-> <<>>, fmt |-> ".pvd", it |-> 0, points |-> <<>>, cells |-> <<>>,
     types |-> <<>>, point_data |-> <<>>,
     datasets |-> [c \in DOMAIN sin |->
                     [file |-> sin[c].num, fmt |-> ".vtu", timestep |-> sin[c].inc]]]

\* a message given to logging.warning, with the count it carries
Log(msg, n) == [msg |-> msg, n |-> n]

\* lines 584-589 for the blocks that were read
block_warnings(blocks) ==
    {Log("NaN and Inf are not supported in Paraview", blocks[i].warn.NaNInf) :
        i \in {i \in DOMAIN blocks : blocks[i].warn.NaNInf > 0}}
    \cup {Log("Wrong format", blocks[i].warn.WrongFormat) :
        i \in {i \in DOMAIN blocks : blocks[i].warn.WrongFormat > 0}}

\* lines 867-869 and 883-885 of the conversion of b; the message of line 885
\* gives a str to %d, so logging reports a logging error in its place
conversion_warnings(b, nb, map) ==
    (IF Cardinality(DOMAIN b.results) > nb.numnod
         THEN {Log("Truncating data. More values than nodes.", 0)} ELSE {})
    \cup {Log("--- Logging error ---", CountKind(b.results, get_node_numbers(map), k)) :
            k \in {k \in {"inf", "nan"} :
                      CountKind(b.results, get_node_numbers(map), k) > 0}}

-----------------------------------------------------------------------------
(* Converter.run: the main thread, step by step, and the writer threads.   *)

Raise(e) == pc' = "raised" /\ err' = e

\* the position a loop of parse_mesh or parse_results reached when it ended
\* at p: the header of a result block at p was read before the seek that
\* went up one line (lines 634 and 691)
read_ahead(f, p) == IF readline(f, p).key = "100" THEN p + 1 ELSE p

AllJoined == \A i \in DOMAIN threads : threads[i].status # "started"

\* values an allocated, never written tuple may hold
Junk == {Zero, Norm(7, 0)}

\* lines 905-909
run_open ==
    /\ pc = "run"
    /\ pc' = "parse_mesh"
    /\ file_open' = TRUE
    /\ in_pos' = 1
    /\ threads' = <<>>
    /\ node_block' = NoBlock
    /\ elem_block' = NoBlock
    /\ steps_increments' = <<>>
    /\ ugrid' = EmptyGrid
    /\ read_to' = 1
    /\ UNCHANGED <<other, file, fmt_list, err, renumbered_nodes, it, result_blocks, bi,
                   written, logged, events>>

\* line 912
run_parse_mesh ==
    /\ pc = "parse_mesh"
    /\ \E r \in {parse_mesh(file, in_pos, renumbered_nodes)} :
          /\ in_pos' = r.st.pos
          /\ renumbered_nodes' = r.st.map
          /\ node_block' = r.st.node_block
          /\ elem_block' = r.st.elem_block
          /\ ugrid' = r.ugrid
          /\ read_to' = Max(read_to, IF r.st.err = "" THEN read_ahead(file, r.st.pos)
                                     ELSE r.st.pos)
          /\ IF r.st.err = "" THEN pc' = "has_mesh" /\ err' = err
             ELSE Raise(r.st.err)
    /\ UNCHANGED <<other, file, fmt_list, file_open, steps_increments, it, result_blocks,
                   bi, threads, written, logged, events>>

\* lines 913-914
run_has_mesh ==
    /\ pc = "has_mesh"
    /\ IF has_mesh(node_block, elem_block)
           THEN pc' = "count_increments" /\ logged' = logged
       ELSE pc' = "done" /\ logged' = logged \cup {Log("File is empty!", 0)}
    /\ UNCHANGED <<read_to, other, file, fmt_list, in_pos, file_open, err, renumbered_nodes,
                   node_block, elem_block, ugrid, steps_increments, it,
                   result_blocks, bi, threads, written, events>>

\* line 925 without the seek of line 666: the file stays where the scan ended
run_count_increments_without_seek ==
    /\ pc = "count_increments"
    /\ \E r \in {count_increments(file, in_pos, steps_increments)} :
          /\ steps_increments' = r.steps
          /\ read_to' = Max(read_to, r.pos)
          /\ in_pos' = r.pos
          /\ IF r.err = "" THEN pc' = "loop" /\ err' = err ELSE Raise(r.err)
          /\ logged' = IF r.err = "" /\ Len(r.steps) = 0
                           THEN logged \cup {Log("No time increments!", 0)}
                       ELSE logged
    /\ it' = 0
    /\ UNCHANGED <<other, file, fmt_list, file_open, renumbered_nodes, node_block,
                   elem_block, ugrid, result_blocks, bi, threads, written, events>>

\* line 925
run_count_increments ==
    /\ pc = "count_increments"
    /\ \E r \in {count_increments(file, in_pos, steps_increments)} :
          /\ steps_increments' = r.steps
          /\ read_to' = Max(read_to, r.pos)
          /\ IF r.err = "" THEN pc' = "loop" /\ err' = err ELSE Raise(r.err)
          /\ logged' = IF r.err = "" /\ Len(r.steps) = 0
                           THEN logged \cup {Log("No time increments!", 0)}
                       ELSE logged
    /\ it' = 0
    /\ UNCHANGED <<other, file, fmt_list, in_pos, file_open, renumbered_nodes, node_block,
                   elem_block, ugrid, result_blocks, bi, threads, written, events>>

\* lines 926-927: the next (step, inc, num) and parse_results
run_parse_results ==
    /\ pc = "loop"
    /\ it < Len(step_inc_num(steps_increments))
    /\ \E sin \in {step_inc_num(steps_increments)[it + 1]} :
        \E r \in {parse_results(file, in_pos, renumbered_nodes, sin.step, sin.inc)} :
          /\ in_pos' = r.pos
          /\ read_to' = Max(read_to, IF r.err = "" /\ sin.step # 0
                                         THEN read_ahead(file, r.pos)
                                     ELSE r.pos)
          /\ result_blocks' = r.result_blocks
          /\ logged' = logged \cup block_warnings(r.result_blocks)
          /\ IF r.err = "" THEN pc' = "blocks" /\ err' = err ELSE Raise(r.err)
    /\ it' = it + 1
    /\ bi' = 1
    /\ events' = Append(events, <<"decode", it + 1>>)
    /\ UNCHANGED <<other, file, fmt_list, file_open, renumbered_nodes, node_block,
                   elem_block, ugrid, steps_increments, threads, written>>

\* lines 933-937 for a block with results and components; the array keeps
\* the iteration it and the block bi it was made from
add_array(b, da) ==
    /\ ugrid' = [ugrid EXCEPT !.point_data =
                    AddArray(@, [name |-> da.name, components |-> da.components,
                                 tuples |-> da.tuples, it |-> it, blk |-> bi])]
    /\ result_blocks' = [result_blocks EXCEPT ![bi] =
                            converted_block(b, renumbered_nodes)]
    /\ logged' = logged \cup conversion_warnings(b, node_block, renumbered_nodes)

\* lines 928-937: one pass of "for b in result_blocks"
run_add_array ==
    /\ pc = "blocks"
    /\ bi <= Len(result_blocks)
    /\ IF DOMAIN result_blocks[bi].results # {}
          /\ Len(result_blocks[bi].components) > 0
           THEN IF missing_results(result_blocks[bi], renumbered_nodes) = {}
                    THEN /\ \E junk \in Junk :
                               add_array(result_blocks[bi],
                                         convert_frd_data_to_vtk(result_blocks[bi],
                                                                 node_block,
                                                                 renumbered_nodes,
                                                                 junk))
                         /\ UNCHANGED <<pc, err>>
                ELSE /\ Raise("KeyError")
                     /\ UNCHANGED <<ugrid, result_blocks, logged>>
       ELSE UNCHANGED <<ugrid, result_blocks, logged, pc, err>>
    /\ bi' = bi + 1
    /\ UNCHANGED <<read_to, other, file, fmt_list, in_pos, file_open, renumbered_nodes,
                   node_block, elem_block, steps_increments, it, threads,
                   written, events>>

\* lines 939-941: join the threads of the previous iteration
run_join ==
    /\ pc = "blocks"
    /\ bi > Len(result_blocks)
    /\ AllJoined
    /\ threads' = <<>>
    /\ pc' = "start"
    /\ events' = Append(events, <<"join", it - 1>>)
    /\ UNCHANGED <<read_to, other, file, fmt_list, in_pos, file_open, err, renumbered_nodes,
                   node_block, elem_block, ugrid, steps_increments, it,
                   result_blocks, bi, written, logged>>

\* lines 942-948: one thread per format
run_start_writers ==
    /\ pc = "start"
    /\ threads' = [i \in DOMAIN fmt_list |->
                     [num |-> step_inc_num(steps_increments)[it].num,
                      fmt |-> fmt_list[i], it |-> it, status |-> "started"]]
    /\ pc' = "loop"
    /\ events' = Append(events, <<"start", it>>)
    /\ UNCHANGED <<read_to, other, file, fmt_list, in_pos, file_open, err, renumbered_nodes,
                   node_block, elem_block, ugrid, steps_increments, it,
                   result_blocks, bi, written, logged>>

\* lines 950-952, after the loop
run_write_pvd ==
    /\ pc = "loop"
    /\ it = Len(step_inc_num(steps_increments))
    /\ written' = IF Len(steps_increments) > 1
                     /\ \E i \in DOMAIN fmt_list : fmt_list[i] = ".vtu"
                      THEN written \cup {write_pvd(step_inc_num(steps_increments))}
                  ELSE written
    /\ pc' = "close"
    /\ UNCHANGED <<read_to, other, file, fmt_list, in_pos, file_open, err, renumbered_nodes,
                   node_block, elem_block, ugrid, steps_increments, it,
                   result_blocks, bi, threads, logged, events>>

\* line 954
run_close ==
    /\ pc = "close"
    /\ file_open' = FALSE
    /\ pc' = "final_join"
    /\ UNCHANGED <<read_to, other, file, fmt_list, in_pos, err, renumbered_nodes, node_block,
                   elem_block, ugrid, steps_increments, it, result_blocks, bi,
                   threads, written, logged, events>>

\* lines 955-956
run_final_join ==
    /\ pc = "final_join"
    /\ AllJoined
    /\ pc' = "done"
    /\ events' = Append(events, <<"join", it>>)
    /\ UNCHANGED <<read_to, other, file, fmt_list, in_pos, file_open, err, renumbered_nodes,
                   node_block, elem_block, ugrid, steps_increments, it,
                   result_blocks, bi, threads, written, logged>>

\* a writer thread runs write_converted_file on the grid it was handed, the
\* grid of the FRD object, as it is when the thread gets to run
writer(i) ==
    /\ i \in DOMAIN threads
    /\ threads[i].status = "started"
    /\ \E w \in {write_converted_file(threads[i], ugrid)} :
          /\ written' = written \cup w.out
          /\ threads' = [threads EXCEPT ![i].status =
                            IF w.err = "" THEN "done" ELSE "failed"]
    /\ UNCHANGED <<read_to, other, file, fmt_list, in_pos, file_open, pc, err, renumbered_nodes,
                   node_block, elem_block, ugrid, steps_increments, it,
                   result_blocks, bi, logged, events>>

\* parse_mesh of the second FRD instance on its own file: its node block
\* clears and fills the dictionary of the module, the one the first
\* conversion reads
other_parse_mesh ==
    /\ other.pc = "parse_mesh"
    /\ \E r \in {parse_mesh(other.file, other.in_pos, renumbered_nodes)} :
          /\ renumbered_nodes' = r.st.map
          /\ other' = [other EXCEPT !.pc = IF r.st.err = "" THEN "has_mesh"
                                          ELSE "raised",
                                    !.in_pos = r.st.pos,
                                    !.node_block = r.st.node_block,
                                    !.elem_block = r.st.elem_block,
                                    !.ugrid = r.ugrid,
                                    !.err = r.st.err,
                                    !.at = pc]
    /\ UNCHANGED <<read_to, file, fmt_list, in_pos, file_open, pc, err, node_block,
                   elem_block, ugrid, steps_increments, it, result_blocks, bi,
                   threads, written, logged, events>>

-----------------------------------------------------------------------------
(* The .frd files given to the converter, written as CalculiX writes them. *)

SeqsUpTo(S, n) == UNION {[1..k -> S] : k \in 0..n}

RECURSIVE Flatten(_)
Flatten(ss) == IF ss = <<>> THEN <<>> ELSE Head(ss) \o Flatten(Tail(ss))

\* s cut into rows of at most w entries
RECURSIVE Chunks(_, _)
Chunks(s, w) ==
    IF Len(s) <= w THEN <<s>>
    ELSE <<SubSeq(s, 1, w)>> \o Chunks(SubSeq(s, w + 1, Len(s)), w)

EndOfBlock == Line("-3", <<>>, <<>>, <<>>)
ModelHeader == Line("1", <<>>, <<"C">>, <<>>)
EndOfFile == Line("9999", <<>>, <<>>, <<>>)

\* " -1" + node number + three coordinates; x carries the node number
NodeLine(id) ==
    Line("-1", <<id>>, <<>>, <<IntChars(id), <<"0">>, <<"0", ".", "5">> >>)

NodeBlockLines(ns) ==
    <<Line("2", <<>>, <<"C">>, <<>>)>> \o [i \in DOMAIN ns |-> NodeLine(ns[i])]
        \o <<EndOfBlock>>

\* nodes per " -2" line of an element record: the 20 nodes of a brick take
\* the two lines num_lines gives it
NodesPerLine == Len(BrickOrder) \div 2

ElementNodeLines(rows) ==
    [j \in DOMAIN rows |-> Line("-2", rows[j], <<>>, <<>>)]

\* " -1" + element number, type, group, material, then the " -2" lines
ElementLines(num, e) ==
    <<Line("-1", <<num, e.etype, 0, 1>>, <<>>, <<>>)>>
        \o ElementNodeLines(Chunks(e.enodes, NodesPerLine))

ElemBlockLines(es) ==
    <<Line("3", <<>>, <<"C">>, <<>>)>>
        \o Flatten([i \in DOMAIN es |-> ElementLines(i, es[i])])
        \o <<EndOfBlock>>

\* per node a " -1" line and its " -2" lines
RowLinesOf(node, rows) ==
    [j \in DOMAIN rows |->
        IF j = 1 THEN Line("-1", <<node>>, <<>>, rows[1])
        ELSE Line("-2", <<>>, <<>>, rows[j])]

RowLines(row) == RowLinesOf(row.node, Chunks(row.vals, RowWidth))

\* "  100CL" + increment value and step, " -4" name and ncomps, the " -5"
\* component lines, then the data lines
ResultBlockLines(blk) ==
    <<Line("100", <<blk.step>>, <<"C", "L">>, <<blk.inc>>),
      Line("-4", <<Len(blk.comps), 1>>, blk.name, <<>>)>>
        \o [i \in DOMAIN blk.comps |-> Line("-5", <<1>>, blk.comps[i], <<>>)]
        \o Flatten([i \in DOMAIN blk.rows |-> RowLines(blk.rows[i])])
        \o <<EndOfBlock>>

FrdFile(ns, es, blks) ==
    <<ModelHeader>> \o NodeBlockLines(ns) \o ElemBlockLines(es)
        \o Flatten([i \in DOMAIN blks |-> ResultBlockLines(blks[i])])
        \o <<EndOfFile>>

\* number of nodes CalculiX writes for an element of a catalog type
NodeCount(etype) ==
    IF etype \in 1..12 THEN <<8, 6, 4, 20, 15, 10, 3, 6, 4, 8, 2, 3>>[etype]
    ELSE 2

\* an element of the given type on the nodes of ns, starting at the k-th
Element(ns, etype, k) ==
    [etype |-> etype,
     enodes |-> [i \in 1..NodeCount(etype) |-> ns[((i - 1 + k) % Len(ns)) + 1]]]

\* no second instance
NoOther == [pc |-> "none"]

\* FRD(in_file) of a second conversion, before its parse_mesh; at keeps
\* where the first conversion stood when the second decoded its mesh
OtherFRD(g) ==
    [pc |-> "parse_mesh", file |-> g, in_pos |-> 1, node_block |-> NoBlock,
     elem_block |-> NoBlock, ugrid |-> EmptyGrid, err |-> "", at |-> ""]

StartOfConversion(f, fmts) ==
    /\ read_to = 1
    /\ file = f
    /\ fmt_list = fmts
    /\ in_pos = 1
    /\ file_open = FALSE
    /\ pc = "run"
    /\ err = ""
    /\ renumbered_nodes = EmptyMap
    /\ node_block = NoBlock
    /\ elem_block = NoBlock
    /\ ugrid = EmptyGrid
    /\ steps_increments = <<>>
    /\ it = 0
    /\ result_blocks = <<>>
    /\ bi = 1
    /\ threads = <<>>
    /\ written = {}
    /\ logged = {}
    /\ events = <<>>

StartOfRun(f, fmts) == StartOfConversion(f, fmts) /\ other = NoOther

-----------------------------------------------------------------------------
(* Geometry files: any node block, and element blocks over large ones.     *)

NodeIds == 1..(MaxNodes + 1)
ElemTypes == {-1, 0, 1, 2, 4, 5, 11, 13}

\* the nodes of a 20 node brick, listed in ascending order and in the order
\* 8, 16, 3, 11, ... (8 * i mod 21), neither ascending nor descending
BigMesh == Len(BrickOrder)
Ascending(n) == [i \in 1..n |-> i]
Shuffled(n) == [i \in 1..n |-> (8 * i) % (n + 1)]

LineElement(ns) == IF ns = <<>> THEN <<>> ELSE <<Element(ns, 11, 0)>>

\* the i-th element of the block starts at the i-th node
ElementsOf(ns, ts) == [i \in DOMAIN ts |-> Element(ns, ts[i], i)]

\* an element that lists d nodes more (d = 1) or fewer (d = -1) than
\* CalculiX writes for its type
MiscountElement(ns, etype, d) ==
    [etype |-> etype,
     enodes |-> [i \in 1..(NodeCount(etype) + d) |-> ns[((i - 1) % Len(ns)) + 1]]]

MiscountFiles ==
    {FrdFile(Ascending(BigMesh),
             <<MiscountElement(Ascending(BigMesh), t, d)>> \o tail, <<>>) :
        t \in {1, 2, 4, 5, 11}, d \in {-1, 1},
        tail \in {<<>>, <<Element(Ascending(BigMesh), 11, 1)>>}}

MeshFiles ==
    {FrdFile(ns, LineElement(ns), <<>>) : ns \in SeqsUpTo(NodeIds, MaxNodes)}
    \cup {FrdFile(Ascending(BigMesh), ElementsOf(Ascending(BigMesh), ts), <<>>) :
            ts \in SeqsUpTo(ElemTypes, MaxElems)}
    \cup {FrdFile(Shuffled(BigMesh), ElementsOf(Ascending(BigMesh), ts), <<>>) :
            ts \in SeqsUpTo(ElemTypes, MaxElems)}
    \cup MiscountFiles

InitMesh == \E f \in MeshFiles : StartOfRun(f, <<".vtk">>)

\* the geometry phase of Converter.run
NextMesh == run_open \/ run_parse_mesh \/ run_has_mesh

SpecMesh == InitMesh /\ [][NextMesh]_vars

-----------------------------------------------------------------------------
(* Result files: one increment read against any node block.                *)

\* the value n.c as CalculiX writes it, with the exponent marker
ValueToken(n, c) == IntChars(n) \o <<".">> \o IntChars(c) \o <<"E", "+", "0", "0">>

IncToken(i) == IntChars(i) \o <<".", "0">>

ResultBlock(step, inc, name, comps, rows) ==
    [step |-> step, inc |-> inc, name |-> name, comps |-> comps, rows |-> rows]

\* DISP: D1, D2, D3 and the ALL entry, which carries no value; the nodes of
\* listed have the values n.1, n.2, n.3
DispBlock(step, i, listed) ==
    ResultBlock(step, IncToken(i), N_DISP,
                <<<<"D", "1">>, <<"D", "2">>, <<"D", "3">>, N_ALL>>,
                [k \in DOMAIN listed |->
                    [node |-> listed[k],
                     vals |-> [c \in 1..3 |-> ValueToken(listed[k], c)]]])

\* NDTEMP: one component, the value n.i
TempBlock(step, i, listed) ==
    ResultBlock(step, IncToken(i), N_NDTEMP, <<<<"T">>>>,
                [k \in DOMAIN listed |->
                    [node |-> listed[k], vals |-> <<ValueToken(listed[k], i)>>]])

\* STRESS: the six components of the tensor, the values n.1 .. n.6
StressBlock(step, i, listed) ==
    ResultBlock(step, IncToken(i), N_STRESS,
                <<<<"S", "X", "X">>, <<"S", "Y", "Y">>, <<"S", "Z", "Z">>,
                  <<"S", "X", "Y">>, <<"S", "Y", "Z">>, <<"S", "Z", "X">>>>,
                [k \in DOMAIN listed |->
                    [node |-> listed[k],
                     vals |-> [c \in 1..6 |-> ValueToken(listed[k], c)]]])

\* a float field: sign, "1.", fraction digits, exponent marker (or none),
\* exponent sign and three exponent digits
FloatToken(sign, frac, marker, esign, exp) ==
    sign \o <<"1", ".">> \o frac \o marker \o <<esign>> \o exp

Tokens ==
    {FloatToken(sign, frac, marker, esign, exp) :
        sign \in {<<>>, <<"-">>}, frac \in SeqsUpTo({"2", "4"}, MaxFrac),
        marker \in {<<>>, <<"E">>}, esign \in {"+", "-"},
        exp \in {<<"1", "0", "0">>, <<"0", "0", "5">>}}
    \cup {<<"1", "+", "1", "0", "0">>, <<"1", ".", "5", "+", "0", "5">>,
          <<"N", "a", "N">>, <<"I", "n", "f">>, <<"-", "I", "n", "f">>,
          <<"n", "a", "n">>}

\* FORC with the components F1 and F2 and one data line, for node 1
TokenBlock(t1, t2) ==
    ResultBlock(1, IncToken(1), N_FORC, <<<<"F", "1">>, <<"F", "2">>>>,
                <<[node |-> 1, vals |-> <<t1, t2>>]>>)

\* a field d.0E+xx or -d.0E+xx
NumToken(sign, d, exp) == sign \o <<d, ".", "0", "E", "+">> \o exp

DiagTokens ==
    {NumToken(<<>>, "1", <<"0", "0">>), NumToken(<<>>, "2", <<"0", "0">>),
     NumToken(<<>>, "3", <<"0", "0">>), NumToken(<<"-">>, "5", <<"0", "0">>),
     NumToken(<<>>, "0", <<"0", "0">>)}

ShearTokens ==
    {[c \in 1..3 |-> NumToken(<<>>, "0", <<"0", "0">>)],
     <<NumToken(<<>>, "1", <<"0", "0">>), NumToken(<<>>, "0", <<"0", "0">>),
       NumToken(<<"-">>, "2", <<"0", "0">>)>>}

\* fields that are no finite number, or a number whose square is none
SpecialTokens ==
    {<<"N", "a", "N">>, <<"I", "n", "f">>, <<"-", "I", "n", "f">>,
     NumToken(<<>>, "1", <<"2", "0", "0">>)}

TensorComponents ==
    << <<"X", "X">>, <<"Y", "Y">>, <<"Z", "Z">>, <<"X", "Y">>, <<"Y", "Z">>,
       <<"Z", "X">>, <<"Q">> >>

\* a block of the given dataset name with the first Len(vals) components
\* and one data record, for node 1
TensorBlock(name, vals) ==
    ResultBlock(1, IncToken(1), name, SubSeq(TensorComponents, 1, Len(vals)),
                <<[node |-> 1, vals |-> vals]>>)

DefaultTensor == [c \in 1..Len(TensorComponents) |-> NumToken(<<>>, DigitChar(c), <<"0", "0">>)]

TensorFiles ==
    {FrdFile(<<2, 1>>, LineElement(<<2, 1>>), <<TensorBlock(name, diag \o shear)>>) :
        name \in {N_STRESS, N_TOSTRAIN},
        diag \in [1..3 -> DiagTokens], shear \in ShearTokens}
    \cup {FrdFile(<<2, 1>>, LineElement(<<2, 1>>),
                  <<TensorBlock(name, SubSeq(DefaultTensor, 1, nc))>>) :
            name \in {N_STRESS, N_TOSTRAIN, N_ZZSTR, N_MESTRAIN, N_FORC, N_PE},
            nc \in {3, 6, 7}}
    \cup {FrdFile(<<2, 1>>, LineElement(<<2, 1>>),
                  <<TensorBlock(name, SubSeq([DefaultTensor EXCEPT ![c] = t], 1, nc))>>) :
            name \in {N_STRESS, N_TOSTRAIN, N_FORC}, t \in SpecialTokens,
            c \in {1, 4, 6}, nc \in {6, 7}}

\* 2.5+100: a field of a number too big for the format, written without 'E'
BareToken == <<"2", ".", "5", "+", "1", "0", "0">>

\* seven components, the last on the continuation line of the record, with
\* the field at position c written without the exponent marker
ContinuationFiles ==
    {FrdFile(<<2, 1>>, LineElement(<<2, 1>>),
             <<TensorBlock(N_FORC, [DefaultTensor EXCEPT ![c] = BareToken])>>) :
        c \in {1, 6, 7}}

\* component names with and without the letters ALL
AllNames ==
    {N_ALL, <<"W", "A", "L", "L">>, <<"R", "F", "A", "L", "L">>,
     <<"a", "l", "l">>, <<"F", "2">>}

\* FORC with three component lines, the one at position k named x, and one
\* record of three values for each node
AllFiles ==
    {FrdFile(<<2, 1>>, LineElement(<<2, 1>>),
             <<ResultBlock(1, IncToken(1), N_FORC,
                           [<<<<"F", "1">>, <<"F", "2">>, <<"F", "3">>>>
                               EXCEPT ![k] = x],
                           [n \in 1..2 |->
                               [node |-> n,
                                vals |-> [c \in 1..3 |-> ValueToken(n, c)]]])>>) :
        x \in AllNames, k \in {2, 3}}

\* FORC with nc components C1, C2, ... and one record for each of the nodes
\* 1 and 2, written on as many lines as the values need
WideBlock(nc) ==
    ResultBlock(1, IncToken(1), N_FORC,
                [k \in 1..nc |-> <<"C">> \o IntChars(k)],
                [n \in 1..2 |->
                    [node |-> n, vals |-> [c \in 1..nc |-> ValueToken(n, c)]]])

WideFiles ==
    {FrdFile(<<2, 1>>, LineElement(<<2, 1>>), <<WideBlock(nc)>>) :
        nc \in {1, 5, 6, 7, 12, 13}}

\* DISP records for node 3, which the node block (nodes 1 and 2) lacks
ExtraNodeFiles ==
    {FrdFile(ns, LineElement(ns), <<DispBlock(1, 1, listed)>>) :
        ns \in {<<2, 1>>, <<1, 2>>},
        listed \in {<<3>>, <<1, 3>>, <<3, 2>>, <<1, 2, 3>>}}

\* one increment with the blocks DISP, STRESS and TOSTRAIN
TwoTensorsFile ==
    FrdFile(<<2, 1>>, LineElement(<<2, 1>>),
            <<DispBlock(1, 1, <<1, 2>>),
              TensorBlock(N_STRESS, SubSeq(DefaultTensor, 1, 6)),
              TensorBlock(N_TOSTRAIN, SubSeq(DefaultTensor, 1, 6))>>)

NodeSeqs == SeqsUpTo(1..MaxNodes, MaxNodes) \ {<<>>}

ResFiles ==
    UNION {{FrdFile(ns, LineElement(ns), <<DispBlock(1, 1, SortedSeq(L))>>) :
                L \in SUBSET Range(ns)} : ns \in NodeSeqs}
    \cup UNION {{FrdFile(ns, LineElement(ns), <<TempBlock(1, 1, SortedSeq(L))>>) :
                L \in SUBSET Range(ns)} : ns \in NodeSeqs}
    \cup {FrdFile(<<2, 1>>, LineElement(<<2, 1>>), <<TokenBlock(t1, t2)>>) :
            t1 \in Tokens,
            t2 \in {ValueToken(2, 5), <<"2", ".", "5", "+", "1", "0", "0">>}}
    \cup {FrdFile(<<2, 1>>, LineElement(<<2, 1>>), <<StressBlock(1, 1, listed)>>) :
            listed \in {<<1>>, <<1, 2>>}}
    \cup TensorFiles
    \cup ContinuationFiles
    \cup AllFiles
    \cup WideFiles
    \cup ExtraNodeFiles
    \cup {TwoTensorsFile}

\* two conversions in one process: the files of the first, with one result
\* block, and the files of the second, a mesh over other node numbers
FirstFiles ==
    {FrdFile(ns, LineElement(ns), <<blk>>) :
        ns \in {<<2, 1>>, <<1, 2>>},
        blk \in {DispBlock(1, 1, <<1, 2>>), DispBlock(1, 1, <<1>>),
                 TempBlock(1, 1, <<1, 2>>), StressBlock(1, 1, <<1, 2>>)}}

OtherFiles ==
    {FrdFile(ns, LineElement(ns), <<>>) :
        ns \in {<<2, 1>>, <<3, 1>>, <<1, 2, 3>>, <<3, 4>>}}

InitTwo ==
    \E f \in FirstFiles : \E g \in OtherFiles :
        StartOfConversion(f, <<".vtk">>) /\ other = OtherFRD(g)

\* the first conversion up to the arrays of its increment, and the mesh of
\* the second
NextTwo ==
    \/ run_open
    \/ run_parse_mesh
    \/ run_has_mesh
    \/ run_count_increments
    \/ run_parse_results
    \/ run_add_array
    \/ other_parse_mesh

SpecTwo == InitTwo /\ [][NextTwo]_vars

InitRes == \E f \in ResFiles : StartOfRun(f, <<".vtk">>)

\* Converter.run up to the arrays of the first increment
NextRes ==
    \/ run_open
    \/ run_parse_mesh
    \/ run_has_mesh
    \/ run_count_increments
    \/ run_parse_results
    \/ run_add_array

SpecRes == InitRes /\ [][NextRes]_vars

-----------------------------------------------------------------------------
(* Whole runs: files of several increments, files without a mesh, and the  *)
(* writer threads.                                                         *)

\* the result blocks a file may carry: (step, increment, dataset)
BlockChoices ==
    {DispBlock(1, 1, <<1, 2>>), TempBlock(1, 1, <<1, 2>>),
     DispBlock(1, 2, <<1, 2>>), DispBlock(2, 1, <<1, 2>>),
     DispBlock(0, 1, <<1, 2>>)}

\* a record cut short: the line keeps its key and its integer fields and
\* loses its name and its float fields (a " -4" line loses its counts too)
Broken(line) ==
    [line EXCEPT !.name = <<>>, !.vals = <<>>,
                 !.toks = IF line.key = "-4" THEN <<>> ELSE @]

\* a file of two increments with one of its records cut short
TwoIncrements ==
    FrdFile(<<2, 1>>, LineElement(<<2, 1>>),
            <<DispBlock(1, 1, <<1, 2>>), DispBlock(1, 2, <<1, 2>>)>>)

MalformedFiles ==
    {[TwoIncrements EXCEPT ![i] = Broken(@)] :
        i \in {i \in DOMAIN TwoIncrements :
                  /\ TwoIncrements[i].key \in {"-1", "100", "-4", "-5"}
                  /\ Broken(TwoIncrements[i]) # TwoIncrements[i]}}

\* node 1 and node 2, one line element on them, no result block
LineExample ==
    FrdFile(<<1, 2>>, <<[etype |-> 11, enodes |-> <<1, 2>>]>>, <<>>)

\* blocks of increment 1 before and after the block of increment 2
Interleaved ==
    FrdFile(<<2, 1>>, LineElement(<<2, 1>>),
            <<DispBlock(1, 1, <<1, 2>>), DispBlock(1, 2, <<1, 2>>),
              TempBlock(1, 1, <<1, 2>>)>>)

RunFiles ==
    {FrdFile(<<2, 1>>, LineElement(<<2, 1>>), blks) :
        blks \in SeqsUpTo(BlockChoices, MaxBlocks)}
    \cup {<<>>,
          <<ModelHeader, EndOfFile>>,
          <<ModelHeader>> \o NodeBlockLines(<<2, 1>>) \o <<EndOfFile>>,
          <<ModelHeader>> \o ElemBlockLines(<<>>) \o <<EndOfFile>>}
    \cup MalformedFiles
    \cup {LineExample, Interleaved}

\* the formats of the command line: one or more of the choices vtk, vtu and
\* hdf, in any order, and a format may be given twice
FmtLists ==
    {<<".vtk">>, <<".vtu">>, <<".vtk", ".vtu">>, <<".vtk", ".vtk">>, <<".hdf">>,
     <<".vtu", ".hdf">>}

Init == \E f \in RunFiles : \E fmts \in FmtLists : StartOfRun(f, fmts)

Next ==
    \/ run_open
    \/ run_parse_mesh
    \/ run_has_mesh
    \/ run_count_increments
    \/ run_parse_results
    \/ run_add_array
    \/ run_join
    \/ run_start_writers
    \/ run_write_pvd
    \/ run_close
    \/ run_final_join
    \/ \E i \in DOMAIN threads : writer(i)

Spec == Init /\ [][Next]_vars

-----------------------------------------------------------------------------
(* What the input file says, for the properties below.                     *)

\* the ids of the records of the node block, in file order (the node block
\* of the files above starts at the second line)
ListedIds == [k \in 1..node_block.numnod |-> file[2 + k].toks[1]]

\* the first lines of the element records: number, type, group, material
ElementRecords ==
    {i \in DOMAIN file : file[i].key = "-1" /\ Len(file[i].toks) = 4}

\* the source node ids of a record of one line, and of two lines
OneLineIds(i) == file[i + 1].toks
TwoLineIds(i) == file[i + 1].toks \o file[i + 2].toks

\* the number of node ids on the " -2" lines from line i on
RECURSIVE IdsFrom(_)
IdsFrom(i) ==
    IF i \in DOMAIN file /\ file[i].key = "-2" /\ file[i].name = <<>>
        THEN Len(file[i].toks) + IdsFrom(i + 1)
    ELSE 0

\* the header lines of the result blocks of the file
BlockHeaders == {h \in DOMAIN file : file[h].key = "-4"}

\* the data lines of the result blocks, and the nodes they list
DataLines ==
    {i \in DOMAIN file :
        /\ file[i].key = "-1"
        /\ \E j \in 1..(i - 1) : file[j].key = "100"}

ListedNodes == {file[i].toks[1] : i \in DataLines}

\* the component lines of the file that carry values
ValueComponents ==
    {i \in DOMAIN file : file[i].key = "-5" /\ ~HasSub(file[i].name, N_ALL)}

\* a field without exponent marker: a mantissa, a sign, three digits
IsBare(t) ==
    /\ Len(t) >= 5
    /\ t[Len(t) - 3] \in {"+", "-"}
    /\ \A k \in (Len(t) - 2)..Len(t) : IsDigit(t[k])
    /\ float(SubSeq(t, 1, Len(t) - 4)).k = "num"

\* the field with the marker inserted before the sign
WithMarker(t) ==
    SubSeq(t, 1, Len(t) - 4) \o <<"e">> \o SubSeq(t, Len(t) - 3, Len(t))

-----------------------------------------------------------------------------
(* C1 .. C10.                                                              *)

\* C1: for every array of the grid's point data and every node id n of the
\* geometry, the tuple at index renumbered_nodes[n] is the value vector the
\* array's block holds for n, whatever the order of the node records.
C1_TupleAtRenumberedIndex ==
    pc = "blocks" =>
        \A i \in DOMAIN ugrid.point_data :
            \A n \in DOMAIN renumbered_nodes :
                ugrid.point_data[i].tuples[renumbered_nodes[n]]
                    = result_blocks[ugrid.point_data[i].blk].results[n]

\* C2: a file written by a writer started for increment K holds no array
\* converted from a block of a later increment.
C2_WriterSeesOnlyItsIncrement ==
    \A w \in written :
        \A i \in DOMAIN w.point_data : w.point_data[i].it <= w.it

\* C3: before parse_results runs for increment N+1, the writers of
\* increment N were started and then joined.
C3_JoinBeforeNextDecode ==
    \A i \in DOMAIN events :
        (events[i][1] = "decode" /\ events[i][2] > 1) =>
            \E j \in 1..(i - 1) : \E k \in (j + 1)..(i - 1) :
                /\ events[j] = <<"start", events[i][2] - 1>>
                /\ events[k] = <<"join", events[i][2] - 1>>

\* C4: for a file without node block or without element block the run ends
\* without an error, having logged 'File is empty!', started no writer and
\* written no file.
C4_EmptyFileOutcome ==
    ((~\E i \in DOMAIN file : file[i].key = "2")
         \/ (~\E i \in DOMAIN file : file[i].key = "3"))
      /\ pc \in {"done", "raised"}
    => /\ pc = "done"
       /\ err = ""
       /\ Log("File is empty!", 0) \in logged
       /\ threads = <<>>
       /\ written = {}

\* C5: a data line with fields that lack the exponent marker is decoded;
\* each such field has the value of the field with the marker inserted
\* before the sign (mantissa unchanged), and WrongFormat counts these fields.
C5_RepairKeepsMantissa ==
    \A i \in DataLines :
        ((\E c \in DOMAIN file[i].vals : IsBare(file[i].vals[c]))
             /\ pc \in {"blocks", "raised"})
        => /\ pc = "blocks"
           /\ \A c \in DOMAIN file[i].vals :
                 IsBare(file[i].vals[c]) =>
                     result_blocks[1].results[file[i].toks[1]][c]
                         = float(WithMarker(file[i].vals[c]))
           /\ result_blocks[1].warn.WrongFormat
                 = Cardinality({c \in DOMAIN file[i].vals : IsBare(file[i].vals[c])})

\* C6 as stated: after a node block of N records, whatever their ids, the
\* values of renumbered_nodes are exactly 0 .. N-1.
C6_ImageIsAllIndices ==
    node_block.present =>
        {renumbered_nodes[n] : n \in DOMAIN renumbered_nodes}
            = 0..(node_block.numnod - 1)

\* C6, amended: after a node block of N records every id has the index of
\* the last record that carries it, so the values lie in 0 .. N-1 and
\* distinct ids have distinct indices; the values are exactly 0 .. N-1 when
\* the N records carry pairwise distinct ids.
C6_RenumberMapDistinct ==
    node_block.present =>
        /\ DOMAIN renumbered_nodes = Range(ListedIds)
        /\ \A n \in DOMAIN renumbered_nodes :
              /\ renumbered_nodes[n] \in 0..(node_block.numnod - 1)
              /\ ListedIds[renumbered_nodes[n] + 1] = n
              /\ \A k \in DOMAIN ListedIds :
                    ListedIds[k] = n => k <= renumbered_nodes[n] + 1
        /\ \A n, m \in DOMAIN renumbered_nodes :
              n # m => renumbered_nodes[n] # renumbered_nodes[m]
        /\ (\A j, k \in DOMAIN ListedIds : j # k => ListedIds[j] # ListedIds[k])
              => {renumbered_nodes[n] : n \in DOMAIN renumbered_nodes}
                     = 0..(node_block.numnod - 1)

\* a node block of three records with distinct ids, not in ascending order
C6_Witness ==
    /\ node_block.present
    /\ node_block.numnod = 3
    /\ Cardinality(DOMAIN renumbered_nodes) = 3
    /\ ListedIds[1] > ListedIds[3]


\* C7: a record of type 4 listing n1 .. n20 on two lines gives a cell of
\* exactly 20 entries: the indices of n1 .. n12, then of n17 .. n20, then
\* of n13 .. n16.
C7_BrickConnectivity ==
    elem_block.present =>
        \A i \in ElementRecords :
            (file[i].toks[2] = 4 /\ IdsFrom(i + 1) = 20) =>
                \E c \in DOMAIN elem_block.cells :
                    /\ elem_block.cells[c].rec = i
                    /\ Len(TwoLineIds(i)) = 20
                    /\ Len(elem_block.cells[c].conn) = 20
                    /\ \A k \in 1..12 :
                          elem_block.cells[c].conn[k]
                              = renumbered_nodes[TwoLineIds(i)[k]]
                    /\ \A k \in 13..16 :
                          elem_block.cells[c].conn[k]
                              = renumbered_nodes[TwoLineIds(i)[k + 4]]
                    /\ \A k \in 17..20 :
                          elem_block.cells[c].conn[k]
                              = renumbered_nodes[TwoLineIds(i)[k - 4]]

\* a decoded element block with a record of type 4, over a node block whose
\* file order is not the ascending order of the ids
C7_Witness ==
    /\ elem_block.present
    /\ \E i \in ElementRecords : file[i].toks[2] = 4 /\ IdsFrom(i + 1) = 20
    /\ \E n \in DOMAIN renumbered_nodes : renumbered_nodes[n] # n - 1

\* C8: a record of type 5 (n1 .. n15) or of type 2 (n1 .. n6) gives a cell
\* of exactly 6 entries, the indices of n1, n3, n2, n4, n6, n5; n7 .. n15
\* are in no entry.
C8_WedgeConnectivity ==
    elem_block.present =>
        \A i \in ElementRecords :
            (file[i].toks[2] \in {5, 2}
                 /\ IdsFrom(i + 1) = NodeCount(file[i].toks[2])) =>
                \E c \in DOMAIN elem_block.cells :
                    /\ elem_block.cells[c].rec = i
                    /\ Len(OneLineIds(i)) >= 6
                    /\ elem_block.cells[c].conn
                          = <<renumbered_nodes[OneLineIds(i)[1]],
                              renumbered_nodes[OneLineIds(i)[3]],
                              renumbered_nodes[OneLineIds(i)[2]],
                              renumbered_nodes[OneLineIds(i)[4]],
                              renumbered_nodes[OneLineIds(i)[6]],
                              renumbered_nodes[OneLineIds(i)[5]]>>
                    /\ file[i].toks[2] = 5 =>
                          /\ Len(TwoLineIds(i)) = 15
                          /\ \A k \in 7..15 :
                                renumbered_nodes[TwoLineIds(i)[k]]
                                    \notin Range(elem_block.cells[c].conn)

\* a decoded element block with a record of type 5 and a record of type 2,
\* over a node block whose file order is not the ascending order of the ids
C8_Witness ==
    /\ elem_block.present
    /\ \E i \in ElementRecords : file[i].toks[2] = 5 /\ IdsFrom(i + 1) = 15
    /\ \E i \in ElementRecords : file[i].toks[2] = 2 /\ IdsFrom(i + 1) = 6
    /\ \E n \in DOMAIN renumbered_nodes : renumbered_nodes[n] # n - 1

\* C9: the result block of a file with one result block, whose data lines
\* list nodes of the geometry only, is decoded with one entry for each node id of the geometry, and the nodes
\* its data lines do not list hold a vector of zeros, one for each
\* component line of the file that carries values.
C9_UnlistedNodesZero ==
    (pc = "blocks" /\ result_blocks # <<>> /\ Cardinality(BlockHeaders) = 1
        /\ ListedNodes \subseteq DOMAIN renumbered_nodes) =>
        /\ DOMAIN result_blocks[1].results = DOMAIN renumbered_nodes
        /\ Cardinality(DOMAIN result_blocks[1].results)
              = Cardinality(Range(ListedIds))
        /\ result_blocks[1].ncomps = Cardinality(ValueComponents)
        /\ \A n \in DOMAIN renumbered_nodes \ ListedNodes :
              result_blocks[1].results[n]
                  = [c \in 1..Cardinality(ValueComponents) |-> Zero]

\* a block of three value components (four component lines) listing one of
\* the three nodes of the geometry
C9_Witness ==
    /\ pc = "blocks"
    /\ result_blocks # <<>>
    /\ ListedNodes \subseteq DOMAIN renumbered_nodes
    /\ Cardinality(DOMAIN renumbered_nodes) = 3
    /\ Cardinality(ListedNodes) = 1
    /\ Cardinality(ValueComponents) = 3
    /\ \E i \in DOMAIN file : file[i].key = "-5" /\ HasSub(file[i].name, N_ALL)

\* C10: an element block with a record whose type is outside 1 .. 12 is
\* decoded without an error; that record gives no cell, every other record
\* gives its cell, and renumbered_nodes is as the node block left it.
C10_UnknownTypeSkipped ==
    ((\E i \in ElementRecords : file[i].toks[2] \notin 1..12)
         /\ pc \in {"has_mesh", "raised"})
    => /\ pc = "has_mesh"
       /\ err = ""
       /\ elem_block.present
       /\ \A i \in ElementRecords :
             (file[i].toks[2] \in 1..12)
                 <=> \E c \in DOMAIN elem_block.cells :
                         elem_block.cells[c].rec = i
       /\ Len(elem_block.cells) = Len(elem_block.types)
       /\ \A n \in DOMAIN renumbered_nodes :
             ListedIds[renumbered_nodes[n] + 1] = n


\* the fields of the result records that are NaN or an infinity
ResultLines ==
    {i \in DOMAIN file :
        /\ file[i].key \in {"-1", "-2"}
        /\ \E j \in 1..(i - 1) : file[j].key = "100"}

NaNInfFields ==
    {ic \in UNION {{<<i, c>> : c \in DOMAIN file[i].vals} : i \in ResultLines} :
        float(file[ic[1]].vals[ic[2]]).k \in {"nan", "inf"}}

\* C11: a result block with NaN or infinity fields, whatever its name, is
\* decoded and converted without an error; the arrays of the grid hold no
\* NaN and no infinity, and the fields are counted in the block's warning.
C11_NaNInfNotFatal ==
    (NaNInfFields # {} /\ pc \in {"blocks", "raised"}) =>
        /\ pc = "blocks"
        /\ err = ""
        /\ Log("NaN and Inf are not supported in Paraview",
               Cardinality(NaNInfFields)) \in logged
        /\ bi > Len(result_blocks) =>
              \A i \in DOMAIN ugrid.point_data :
                  \A t \in DOMAIN ugrid.point_data[i].tuples :
                      \A j \in DOMAIN ugrid.point_data[i].tuples[t] :
                          ugrid.point_data[i].tuples[t][j].k \notin {"nan", "inf"}


\* C12: an element block with a record of a catalog type whose number of
\* node ids is not the node count of the type is not decoded: the run ends
\* with an error, for every type.
C12_WrongCountFatal ==
    ((\E i \in ElementRecords :
          /\ file[i].toks[2] \in 1..12
          /\ IdsFrom(i + 1) # NodeCount(file[i].toks[2]))
       /\ pc \in {"has_mesh", "raised"})
    => /\ pc = "raised"
       /\ ~elem_block.present


\* the exceptions of the model that are no SyntaxError
OtherErrors ==
    {"", "ValueError", "KeyError", "IndexError", "AttributeError",
     "OverflowError", "LinAlgError"}

\* a SyntaxError that carries the line and the layout
Carries(regex, line) ==
    "SyntaxError: Can't parse line:\n" \o ToString(line)
        \o "\nwith regex:\n" \o regex

Layouts ==
    {regex_node, regex_inc_step, regex_vars, regex_component}
    \cup {regex_result(n) : n \in 1..RowWidth}
    \cup {regex_continuation(n) : n \in 1..RowWidth}

\* the records of the file that are cut short
CutShort ==
    {i \in DOMAIN file :
        \/ file[i].key = "100" /\ ~match_inc_step(file[i])
        \/ file[i].key = "-4" /\ ~match_vars(file[i])
        \/ file[i].key = "-5" /\ ~match_component(file[i])
        \/ file[i].key = "-1" /\ Len(file[i].toks) = 1 /\ file[i].vals = <<>>}

C13_Raised ==
    /\ err \notin OtherErrors =>
          /\ pc = "raised"
          /\ \E i \in DOMAIN file : \E regex \in Layouts :
                err = Carries(regex, file[i])
          /\ \A i \in DOMAIN threads : threads[i].it < it
          /\ \A w \in written : w.fmt # ".pvd" /\ w.it < it
    /\ (CutShort # {} /\ pc \in {"done", "raised"}) =>
          \E i \in CutShort : \E regex \in Layouts : err = Carries(regex, file[i])

C13_NothingAfter ==
    err \notin OtherErrors =>
        /\ UNCHANGED <<pc, err, in_pos, result_blocks, ugrid, events>>
        /\ \A i \in DOMAIN threads' :
              i \in DOMAIN threads /\ threads'[i].it = threads[i].it

RECURSIVE PairsFrom(_, _)
PairsFrom(i, acc) ==
    IF i > Len(file) THEN acc
    ELSE IF file[i].key = "100" /\ match_inc_step(file[i])
              /\ [step |-> file[i].toks[1], inc |-> float(file[i].vals[1])]
                     \notin Range(acc)
        THEN PairsFrom(i + 1,
                Append(acc, [step |-> file[i].toks[1],
                             inc |-> float(file[i].vals[1])]))
    ELSE PairsFrom(i + 1, acc)

Pairs == PairsFrom(1, <<>>)

\* the number of passes of the loop of Converter.run
Passes == IF Len(Pairs) = 0 THEN 1 ELSE Len(Pairs)

\* the part of the file name between the name of the source and the format
Ordinal(i) ==
    IF Len(Pairs) > 1
        THEN <<".">> \o ZeroPad(IntChars(i), Len(IntChars(Len(Pairs))))
    ELSE <<>>

\* C14: the writers started in one pass of the loop are one for each
\* requested format, with pairwise distinct file names that carry the
\* ordinal of the pass; a run that ends without an error has made one pass
\* for each (step, increment value) pair of the file, or one when there is
\* none.
C14_OneWritePerPairAndFormat ==
    /\ \A i \in DOMAIN threads :
          /\ threads[i].it \in 1..Passes
          /\ threads[i].num = Ordinal(threads[i].it)
          /\ threads[i].fmt \in Range(fmt_list)
    /\ threads # <<>> =>
          \A fmt \in Range(fmt_list) :
              Cardinality({i \in DOMAIN threads : threads[i].fmt = fmt}) = 1
    /\ \A i, j \in DOMAIN threads :
          i # j => <<threads[i].num, threads[i].fmt>>
                       # <<threads[j].num, threads[j].fmt>>
    /\ (pc = "done" /\ has_mesh(node_block, elem_block)) =>
          /\ steps_increments = Pairs
          /\ Cardinality({i \in DOMAIN events : events[i][1] = "start"}) = Passes
          /\ \A n \in 1..Passes :
                \E i \in DOMAIN events : events[i] = <<"start", n>>


PvdFiles == {w \in written : w.fmt = ".pvd"}

\* C15: a run that gets past its loop has written the .pvd file exactly when
\* the file has more than one (step, increment value) pair and .vtu is among
\* the formats; the file has one DataSet for each pair, in order, with the
\* increment value as timestep and the name of the pair's .vtu file, which
\* is written when the run is done.
C15_PvdListsIncrements ==
    /\ Cardinality(PvdFiles) <= 1
    /\ pc \in {"close", "final_join", "done"} /\ has_mesh(node_block, elem_block)
          => (PvdFiles # {}
                <=> (Len(Pairs) > 1 /\ ".vtu" \in Range(fmt_list)))
    /\ ~(pc \in {"close", "final_join", "done"} /\ has_mesh(node_block, elem_block))
          => PvdFiles = {}
    /\ \A w \in PvdFiles :
          /\ Len(w.datasets) = Len(Pairs)
          /\ \A c \in DOMAIN w.datasets :
                /\ w.datasets[c].timestep = Pairs[c].inc
                /\ w.datasets[c].file = Ordinal(c)
                /\ w.datasets[c].fmt = ".vtu"
                /\ pc = "done" =>
                      \E v \in written :
                          /\ v.fmt = ".vtu"
                          /\ v.it = c
                          /\ v.num = w.datasets[c].file

\* a finished run of two increments that wrote the .pvd file
C15_Witness ==
    /\ pc = "done"
    /\ \E w \in PvdFiles : Len(w.datasets) = 2


\* C16: for the file of node 1, node 2 and one line element on [1, 2],
\* without result block, every file written holds 2 points, 1 cell of type
\* 3 with connectivity [0, 1] and no point data, and the finished run has
\* written one file for each requested format.
C16_LineExampleGrid ==
    file = LineExample =>
        /\ \A w \in written :
              /\ w.fmt \in Range(fmt_list)
              /\ Len(w.points) = 2
              /\ Len(w.cells) = 1
              /\ w.types = <<3>>
              /\ w.cells[1].conn = <<0, 1>>
              /\ w.point_data = <<>>
        /\ pc \notin {"done", "raised"} \/ err # "" \/
              \A fmt \in Range(fmt_list) :
                  Cardinality({w \in written : w.fmt = fmt}) = 1
        /\ pc # "raised"

\* the finished run of the example with two formats
C16_Witness ==
    /\ file = LineExample
    /\ pc = "done"
    /\ Cardinality(written) = 2


\* the integer a float value stands for (its exponent is not negative)
IntOf(v) == v.m * Pow10(v.e)

\* the decoded stress and strain blocks, and the block of principal values
\* derived from the block at i
TensorBlocks ==
    {i \in DOMAIN result_blocks : IsStress(result_blocks[i].name)
                                  \/ IsStrain(result_blocks[i].name)}

PrincipalOf(i) ==
    {j \in DOMAIN result_blocks :
        result_blocks[j].name = PrincipalName(result_blocks[i].name)}

\* the nodes of block i whose tensor is diagonal with integer entries
DiagonalNodes(i) ==
    {n \in DOMAIN result_blocks[i].results :
        /\ Len(result_blocks[i].results[n]) >= 6
        /\ \A c \in 1..6 :
              /\ IsNum(result_blocks[i].results[n][c])
              /\ result_blocks[i].results[n][c].e >= 0
        /\ \A c \in 4..6 : result_blocks[i].results[n][c].m = 0}

\* C17: for a node whose tensor has zero shear and the diagonal (a, b, c),
\* the principal block holds a, b, c in ascending order and then Worst, the
\* one of Min and Max with the larger absolute value, with its sign; for
\* diag(1, 2, 3) it holds 1, 2, 3, 3.
C17_PrincipalOfDiagonal ==
    pc = "blocks" =>
        \A i \in TensorBlocks : \A n \in DiagonalNodes(i) :
            /\ PrincipalOf(i) # {}
            /\ \A j \in PrincipalOf(i) :
                LET d == result_blocks[i].results[n]
                    p == result_blocks[j].results[n]
                IN  /\ result_blocks[j].components = PrincipalComponents
                    /\ Len(p) = 4
                    /\ \A c \in 1..4 : IsNum(p[c]) /\ p[c].e >= 0
                    /\ IntOf(p[1]) <= IntOf(p[2]) /\ IntOf(p[2]) <= IntOf(p[3])
                    /\ \A c \in 1..3 : IntOf(p[1]) <= IntOf(d[c])
                                        /\ IntOf(d[c]) <= IntOf(p[3])
                    /\ \E c1, c2, c3 \in 1..3 :
                          /\ {c1, c2, c3} = 1..3
                          /\ p[1] = d[c1] /\ p[2] = d[c2] /\ p[3] = d[c3]
                    /\ p[4] \in {p[1], p[3]}
                    /\ Abs(IntOf(p[4])) >= Abs(IntOf(p[1]))
                    /\ Abs(IntOf(p[4])) >= Abs(IntOf(p[3]))
                    /\ (IntOf(d[1]) = 1 /\ IntOf(d[2]) = 2 /\ IntOf(d[3]) = 3)
                          => \A c \in 1..4 :
                                p[c] = Norm(<<1, 2, 3, 3>>[c], 0)

\* a diagonal tensor that is not given in ascending order and whose Worst
\* value is Min, a negative value
C17_Witness ==
    /\ pc = "blocks"
    /\ \E i \in TensorBlocks : \E n \in DiagonalNodes(i) : \E j \in PrincipalOf(i) :
          /\ IntOf(result_blocks[i].results[n][1])
                > IntOf(result_blocks[i].results[n][2])
          /\ result_blocks[j].results[n][4] = result_blocks[j].results[n][1]
          /\ IntOf(result_blocks[j].results[n][4]) < 0
          /\ IntOf(result_blocks[j].results[n][3]) > 0


MisesOf(i) ==
    {j \in DOMAIN result_blocks :
        result_blocks[j].name = MisesName(result_blocks[i].name)}

\* the nodes of block i whose six values are integers
IntegerNodes(i) ==
    {n \in DOMAIN result_blocks[i].results :
        /\ Len(result_blocks[i].results[n]) >= 6
        /\ \A c \in 1..6 :
              /\ IsNum(result_blocks[i].results[n][c])
              /\ result_blocks[i].results[n][c].e >= 0}

\* (xx-yy)^2 + (yy-zz)^2 + (zz-xx)^2 + 6 (yz^2 + xz^2 + xy^2) for the
\* integers d = (xx, yy, zz, xy, yz, xz)
SumOf(d) ==
    (d[1] - d[2]) * (d[1] - d[2]) + (d[2] - d[3]) * (d[2] - d[3])
        + (d[3] - d[1]) * (d[3] - d[1])
        + 6 * (d[5] * d[5] + d[6] * d[6] + d[4] * d[4])

\* the file has a STRESS or TOSTRAIN block of six components and all the
\* fields of its records are finite numbers
FiniteTensorFile ==
    /\ \E h \in DOMAIN file :
          /\ file[h].key = "-4"
          /\ file[h].name \in {N_STRESS, N_TOSTRAIN}
          /\ file[h].toks[1] = 6
    /\ \A i \in ResultLines : \A c \in DOMAIN file[i].vals :
          float(file[i].vals[c]).k = "num"

\* C18: a stress or strain block of six finite components is followed by
\* its Mises block of one component, and for every node the value v of that
\* block is the root v >= 0 of
\* 2 v^2 = (xx-yy)^2 + (yy-zz)^2 + (zz-xx)^2 + 6 (yz^2 + xz^2 + xy^2).
C18_MisesFormula ==
    (FiniteTensorFile /\ pc \in {"blocks", "raised"}) =>
        /\ pc = "blocks"
        /\ \A i \in TensorBlocks :
              /\ MisesOf(i) # {}
              /\ \A j \in MisesOf(i) :
                    /\ Len(result_blocks[j].components) = 1
                    /\ \A n \in IntegerNodes(i) :
                          LET d == [c \in 1..6 |->
                                      IntOf(result_blocks[i].results[n][c])]
                              v == result_blocks[j].results[n]
                          IN  /\ Len(v) = 1
                              /\ IF SumOf(d) = 0 THEN v[1] = Zero
                                 ELSE /\ v[1].k = "mises"
                                      /\ Norm(v[1].m, v[1].e) = Norm(SumOf(d), 0)


\* every array of a written file was converted from a block decoded for the
\* increment of the writer
C19_OnlyItsArrays ==
    \A w \in written :
        \A i \in DOMAIN w.point_data : w.point_data[i].it = w.it

\* no step changes the grid while a started writer has not ended
C19_GridKept ==
    (\E i \in DOMAIN threads : threads[i].status = "started") => ugrid' = ugrid

\* C19: the grid handed to the writers of increment K carries arrays only
\* for the blocks decoded for increment K (no array left from an earlier
\* increment), and the grid is not modified between the start and the end of
\* increment K's writers.
C19_GridOfIncrement == []C19_OnlyItsArrays /\ [][C19_GridKept]_vars


\* every field of the result records is a finite number
FiniteFields ==
    \A i \in ResultLines : \A c \in DOMAIN file[i].vals :
        float(file[i].vals[c]).k = "num"

\* the block decoded from header h is a six-component block whose name has
\* the alias S (STRESS) or E (TOSTRAIN)
SixComponentTensor(h) ==
    /\ file[h].toks[1] = 6
    /\ file[h].name \in {N_STRESS, N_TOSTRAIN}

\* C20: for a file with one result block of finite fields, parse_results
\* appends the Mises block and the Principal block of the decoded block if
\* and only if the block has six components and the aliased name S or E;
\* for any other name or any other number of components it appends nothing
\* and raises nothing.
C20_DerivationTrigger ==
    (pc \in {"blocks", "raised"} /\ Cardinality(BlockHeaders) = 1 /\ FiniteFields) =>
        \A h \in BlockHeaders :
            IF SixComponentTensor(h)
                THEN pc = "blocks" =>
                        /\ Len(result_blocks) = 3
                        /\ result_blocks[2].name = MisesName(result_blocks[1].name)
                        /\ result_blocks[3].name = PrincipalName(result_blocks[1].name)
            ELSE /\ pc = "blocks"
                 /\ err = ""
                 /\ Len(result_blocks) = 1


\* the fields of the result records, on first and continuation lines, that
\* lack the exponent marker
BareFields ==
    {ic \in UNION {{<<i, c>> : c \in DOMAIN file[i].vals} : i \in ResultLines} :
        IsBare(file[ic[1]].vals[ic[2]])}

\* C21: for a file with one result block, the fields without exponent marker
\* are repaired and counted wherever they stand in a record, on the first
\* line or on a continuation line, and the conversion does not abort.
C21_RepairedOnEveryLine ==
    (BareFields # {} /\ Cardinality(BlockHeaders) = 1
        /\ pc \in {"blocks", "raised"}) =>
        /\ pc = "blocks"
        /\ err = ""
        /\ Log("Wrong format", Cardinality(BareFields)) \in logged


\* the header lines (tag 100) of the result blocks of the file
ResultHeaders == {h \in DOMAIN file : file[h].key = "100"}

\* the result blocks of the file that belong to the pair of pass i
BlocksOfPass(i) ==
    {h \in ResultHeaders :
        /\ file[h].toks[1] = steps_increments[i].step
        /\ float(file[h].vals[1]) = steps_increments[i].inc}

\* C22: the parse_results call for a (step, increment) pair decodes the
\* result blocks of the file that carry this pair, all of them and no
\* other, whatever the order of the blocks in the file and whatever the
\* step number.
C22_EachBlockInItsPass ==
    (pc = "blocks" /\ it \in DOMAIN steps_increments) =>
        /\ Len(result_blocks) = Cardinality(BlocksOfPass(it))
        /\ \A i \in DOMAIN result_blocks :
              /\ result_blocks[i].step = steps_increments[it].step
              /\ result_blocks[i].inc = steps_increments[it].inc


\* the second conversion decoded its mesh after the first had decoded its own
OtherDecodedAfterMesh ==
    other.pc = "has_mesh" /\ other.at \notin {"", "run", "parse_mesh"}

\* the node numbers of the node block of the first file
FirstIds == {ListedIds[k] : k \in DOMAIN ListedIds}

\* C23: when a second conversion decodes the node block of another file after
\* the first conversion decoded its mesh, the first conversion goes on with
\* the node numbers and indices of its own file: it raises nothing, its
\* result blocks hold the nodes of its file, and its arrays hold one tuple
\* per node of its file, in the order of its own node numbers.
C23_MapOwnedByConversion ==
    (OtherDecodedAfterMesh /\ pc \in {"blocks", "raised"}) =>
        /\ pc = "blocks"
        /\ \A i \in DOMAIN result_blocks :
              DOMAIN result_blocks[i].results = FirstIds
        /\ bi > Len(result_blocks) =>
              \A a \in DOMAIN ugrid.point_data :
                  ugrid.point_data[a].tuples =
                      [k \in 0..(node_block.numnod - 1) |->
                          result_blocks[ugrid.point_data[a].blk]
                              .results[SortedSeq(FirstIds)[k + 1]]]


\* the component lines of the file, and those named ALL
ComponentLines == {i \in DOMAIN file : file[i].key = "-5"}

\* C24: for a file with one result block, the block stores one component
\* for every component line whose name is not literally ALL and none for a
\* line named ALL; ncomps is the number of stored components and every
\* node vector of the block has this length.
C24_OnlyAllExcluded ==
    (Cardinality(BlockHeaders) = 1 /\ pc = "blocks") =>
        /\ Len(result_blocks[1].components)
              = Cardinality({i \in ComponentLines : file[i].name # N_ALL})
        /\ result_blocks[1].ncomps = Len(result_blocks[1].components)
        /\ \A n \in DOMAIN result_blocks[1].results :
              Len(result_blocks[1].results[n]) = result_blocks[1].ncomps


\* the first n values of line i, as numbers
ValuesOf(i, n) == [c \in 1..n |-> float(file[i].vals[c])]

\* the values of a record of c components that starts at line i: min(6, c)
\* values of the line, then the values of the lines that follow, the j-th of
\* them holding min(6, c - 6 j) values
RECURSIVE RecordFrom(_, _)
RecordFrom(i, c) ==
    IF c <= 6 THEN ValuesOf(i, c)
    ELSE ValuesOf(i, 6) \o RecordFrom(i + 1, c - 6)

\* the file has one result block, of a dataset without derived blocks, and
\* all its fields are finite numbers
PlainBlockFile ==
    /\ Cardinality(BlockHeaders) = 1
    /\ \A h \in BlockHeaders : file[h].name \in {N_DISP, N_NDTEMP, N_FORC, N_PE}
    /\ FiniteFields

\* C25: for a block of c >= 1 effective components, each record is read as
\* one -1 line of min(6, c) values and (c - 1) div 6 continuation lines,
\* the j-th of min(6, c - 6 j) values; the vector of the node is these
\* values in file order, c in all, and the line after them starts the next
\* record or ends the block: every -1 line of the block is read as the
\* start of a record and no line raises an error.
C25_RecordLayout ==
    (PlainBlockFile /\ pc \in {"blocks", "raised"}) =>
        /\ pc = "blocks"
        /\ result_blocks[1].ncomps >= 1 =>
              \A i \in DataLines :
                  /\ result_blocks[1].results[file[i].toks[1]]
                        = RecordFrom(i, result_blocks[1].ncomps)
                  /\ Len(result_blocks[1].results[file[i].toks[1]])
                        = result_blocks[1].ncomps
                  /\ \A j \in 1..((result_blocks[1].ncomps - 1) \div 6) :
                        file[i + j].key = "-2"
                  /\ file[i + ((result_blocks[1].ncomps - 1) \div 6) + 1].key
                        \in {"-1", "-3"}

\* both records of a block of 13 components, of three lines each, are read
C25_Witness ==
    /\ PlainBlockFile
    /\ pc = "blocks"
    /\ result_blocks[1].ncomps = 13
    /\ Cardinality(DataLines) = 2
    /\ \A i \in DataLines :
          /\ file[i + 2].key = "-2"
          /\ Len(result_blocks[1].results[file[i].toks[1]]) = 13


\* the nodes the result records list and the node block lacks
ExtraListed == ListedNodes \ FirstIds

\* the values the file gives for node n in a block of c components: those
\* of its record, or zeros when no record lists it
FileValues(n, c) ==
    IF \E i \in DataLines : file[i].toks[1] = n
        THEN RecordFrom(CHOOSE i \in DataLines : file[i].toks[1] = n, c)
    ELSE [j \in 1..c |-> Zero]

\* C26: a result block with records for node numbers that the node block
\* lacks is converted without an error; the mismatch is logged, the array
\* has one tuple per node of the node block, and the tuples hold the values
\* of the nodes of the node block, as without the extra records.
C26_ExtraNodesAccepted ==
    (pc \in {"blocks", "raised"} /\ ExtraListed # {}) =>
        /\ pc = "blocks"
        /\ err = ""
        /\ bi > Len(result_blocks) =>
              /\ Log("Truncating data. More values than nodes.", 0) \in logged
              /\ ugrid.point_data # <<>>
              /\ \A a \in DOMAIN ugrid.point_data :
                    ugrid.point_data[a].tuples =
                        [k \in 0..(node_block.numnod - 1) |->
                            FileValues(SortedSeq(FirstIds)[k + 1],
                                       Len(ugrid.point_data[a].components))]

\* the array of a block that lists node 3 besides the nodes 1 and 2
C26_Witness ==
    /\ pc = "blocks"
    /\ ExtraListed # {}
    /\ FirstIds \subseteq ListedNodes
    /\ bi > Len(result_blocks)
    /\ Len(ugrid.point_data) = 1
    /\ Log("Truncating data. More values than nodes.", 0) \in logged


\* the stress and strain blocks of the current increment
StressOrStrain ==
    {i \in DOMAIN result_blocks : result_blocks[i].name \in {<<"S">>, <<"E">>}}

LookaheadOnly ==
    /\ in_pos >= read_to - 1
    /\ in_pos = read_to - 1 => readline(file, in_pos).key = "100"

\* C28 as stated: the source is read once, forward only; the position is
\* never before the place the reading got to, except by the one line of a
\* result header that parse_mesh or parse_results read ahead.
C28_ReadOnceForward == pc # "run" => LookaheadOnly

\* no call leaves the position before the place where the call started, and
\* count_increments leaves it where it started
C28_CallsGoForward ==
    /\ pc # "run" => in_pos' >= in_pos
    /\ pc = "count_increments" => in_pos' = in_pos

\* a line that was read is read again only as the header that was read
\* ahead, or because the scan of count_increments read it before
C28_OnlyTheScanGoesBack ==
    pc \in {"parse_mesh", "has_mesh", "count_increments"} => LookaheadOnly

\* C28 amended: the position goes back by the header line read ahead, and in
\* count_increments by the whole part that its scan read.
C28_ForwardButForTheScan ==
    []C28_OnlyTheScanGoesBack /\ [][C28_CallsGoForward]_vars

\* after the scan of count_increments: the position is at the header of the
\* first result block and the reading got to the end of the file
C28_Witness ==
    /\ pc = "loop"
    /\ it = 0
    /\ readline(file, in_pos).key = "100"
    /\ read_to = Len(file) + 1
    /\ read_to - in_pos > 1


\* C29: for every format of the list, the writer thread that Converter.run
\* starts writes its file: no thread ends in an error, and a thread that
\* ended has its file among the written ones.
C29_EveryFormatWritten ==
    \A i \in DOMAIN threads :
        /\ threads[i].status # "failed"
        /\ threads[i].status = "done" =>
              \E w \in written :
                  w.num = threads[i].num /\ w.fmt = threads[i].fmt

\* the threads of the list that the main thread never waited for: no join
\* of their iteration is in the history (lines 939-940 and 955-956)
Unjoined == {i \in DOMAIN threads : <<"join", threads[i].it>> \notin Range(events)}

\* C30: however Converter.run ends (it returned, it returned for an empty
\* file, or an exception of a malformed record left it), the file it opened
\* is closed and every writer thread it started has been joined.
C30_ResourcesReleased ==
    pc \in {"done", "raised"} => ~file_open /\ Unjoined = {}

=============================================================================
